---- MODULE Spec2Model ----
(***************************************************************************)
(* Budget analytics of the travel-expense dashboard: the filter engine,    *)
(* the burn-curve time bucketing, the category aggregation, the            *)
(* statistics, the heatmap and the two AI components, as the React         *)
(* components under src/components compute them.                           *)
(*                                                                         *)
(* Time.  An instant (a JS Date's getTime()) is an integer number of ticks *)
(* since 1970-01-01T00:00Z; a day has DayLen ticks.  The viewer's time     *)
(* zone is a fixed offset tz (in ticks, local = UTC + tz; zones with a     *)
(* daylight-saving shift are not modelled).  The code mixes the UTC        *)
(* accessors (toISOString) with the local ones (getDay, getDate, getMonth, *)
(* setDate, setHours), so both are modelled.  An ISO date string           *)
(* "YYYY-MM-DD" is represented by its day number since the epoch, which it *)
(* encodes one-to-one; an expense's ISO timestamp string by its instant.   *)
(*                                                                         *)
(* Amounts are integers (minor units).  A quotient the code computes in    *)
(* floating point is kept exact, as a record [num, den].                   *)
(*                                                                         *)
(* Rendering.  A value a component derives with useMemo is an operator     *)
(* over the current state.  The state updates one handler, or one          *)
(* continuation of an async handler, makes are applied together, as React  *)
(* batches them (automatic batching, React 18 and later).  A component     *)
(* that leaves the tree loses its state; a generateContent call it was     *)
(* awaiting stays in flight and its outcome is dropped.                    *)
(***************************************************************************)
EXTENDS Integers, Sequences, FiniteSets, TLC

\* ---------------------------------------------------------------- bounds
\* Ticks per day: the resolution of the clock.
DayLen == 2
\* Largest number of expenses a trip holds.
MaxExpenses == 2
\* Number of days the clock may run past the first day of the window.
MaxDays == 4
\* generateContent calls of one component in flight at a time, at most.
MaxRequests == 2

\* ----------------------------------------------------------- calendar
\* Days since 1970-01-01 of the civil date y-m-d (proleptic Gregorian).
DaysFromCivil(y, m, d) ==
    LET yy  == IF m <= 2 THEN y - 1 ELSE y
        era == yy \div 400
        yoe == yy - era * 400
        mp  == IF m > 2 THEN m - 3 ELSE m + 9
        doy == (153 * mp + 2) \div 5 + d - 1
        doe == yoe * 365 + yoe \div 4 - yoe \div 100 + doy
    IN  era * 146097 + doe - 719468

\* The civil date [year, month (0-based, as getMonth), date] of a day number.
CivilFromDays(dn) ==
    LET z   == dn + 719468
        era == z \div 146097
        doe == z - era * 146097
        yoe == (doe - doe \div 1460 + doe \div 36524 - doe \div 146096) \div 365
        doy == doe - (365 * yoe + yoe \div 4 - yoe \div 100)
        mp  == (5 * doy + 2) \div 153
        dd  == doy - (153 * mp + 2) \div 5 + 1
        mm  == IF mp < 10 THEN mp + 3 ELSE mp - 9
        yy  == yoe + era * 400 + (IF mm <= 2 THEN 1 ELSE 0)
    IN  [year |-> yy, month |-> mm - 1, date |-> dd]

\* First day of the window the clock runs over: Wednesday 2024-01-31, so that
\* the window crosses a month boundary and reaches Sunday 2024-02-04.
BaseDay == DaysFromCivil(2024, 1, 31)

VARIABLES
    tz,                   \* the viewer's zone offset, in ticks
    now,                  \* the clock: what new Date() returns
    trip,                 \* the active trip, with its expense collection
    dateFilter,           \* Dashboard state: "all", "today", "week", "month"
    selectedCategories,   \* Dashboard state: sequence of category names
    selectedDayForDetail, \* Dashboard state: a day (ISO date) or Null
    aiInsights,           \* AIInsights state: isLoading, insights, error
    aiForecast,           \* AIForecast state: isLoading, result, error
    calls                 \* generateContent calls in flight, per component

vars == <<tz, now, trip, dateFilter, selectedCategories, selectedDayForDetail,
          aiInsights, aiForecast, calls>>

\* The state of the two AI components and of their calls.
aiVars == <<aiInsights, aiForecast, calls>>

\* null (never an instant, a day or an amount)
Null == -1

\* ------------------------------------------------------ the Date object
\* new Date(t).toISOString().split('T')[0]: the UTC calendar day of t.
ToISODate(t) == t \div DayLen

\* new Date("YYYY-MM-DD"): a date-only string parses as UTC midnight.
ParseISODate(d) == d * DayLen

\* The local calendar day the local accessors of new Date(t) work on.
LocalDay(t) == (t + tz) \div DayLen

\* The instant of local midnight of local day d.
LocalMidnight(d) == d * DayLen - tz

\* Date.getDay(): 0 (Sunday) to 6 (Saturday); 1970-01-01 was a Thursday.
GetDay(t) == (LocalDay(t) + 4) % 7

\* Date.getDate(), getMonth(), getFullYear(): local day of month, month, year.
GetDate(t) == CivilFromDays(LocalDay(t)).date
GetMonth(t) == CivilFromDays(LocalDay(t)).month
GetFullYear(t) == CivilFromDays(LocalDay(t)).year

\* d.setDate(n): the same local time of day on day n of d's month; n may be
\* zero, negative or past the month's end and then rolls into the neighbours.
SetDate(t, n) == t + (n - GetDate(t)) * DayLen

\* d.setHours(0, 0, 0, 0): local midnight of d's local day.
SetHoursStartOfDay(t) == LocalMidnight(LocalDay(t))

\* d.setHours(23, 59, 59, 999): the last instant of d's local day.
SetHoursEndOfDay(t) == LocalMidnight(LocalDay(t)) + DayLen - 1

\* ------------------------------------------------------------ currency
Currencies == {"EUR", "USD"}

\* Units of the reference currency one unit of c is worth.
Rate(c) == IF c = "USD" THEN 2 ELSE 1

\* useCurrencyConverter().convert: pure; the identity when from = to.
Convert(amount, from, to) ==
    IF from = to THEN amount ELSE (amount * Rate(from)) \div Rate(to)

\* Array.prototype.sort((a, b) => key(b) - key(a)) as the order it puts the
\* positions of its input in: descending by key and, the sort being stable,
\* positions of equal key in increasing order.  keys[i] is the key of s[i].
SortDescOrder(keys) ==
    LET n == Len(keys)
        pos(i) == 1 + Cardinality({j \in 1..n : \/ keys[j] > keys[i]
                                                \/ /\ keys[j] = keys[i]
                                                   /\ j < i})
    IN  [k \in 1..n |-> CHOOSE i \in 1..n : pos(i) = k]

\* s rearranged into the order ord of its positions.
Permute(s, ord) == [k \in 1..Len(s) |-> s[ord[k]]]

\* ------------------------------------------------------------ Dashboard
\* [...exps].sort((a, b) => b.date - a.date): newest first.
SortByDateDesc(exps) ==
    Permute(exps, SortDescOrder([i \in 1..Len(exps) |-> exps[i].date]))

sortedExpenses == SortByDateDesc(trip.expenses)

\* firstDayOfWeek without the adjustment for Sunday.
firstDayOfWeekNoSundayCase(t) ==
    SetHoursStartOfDay(SetDate(t, GetDate(t) - GetDay(t) + 1))

\* The Monday the week filter starts at.
firstDayOfWeek(t) ==
    LET dayOfWeek == GetDay(t)
        diff == GetDate(t) - dayOfWeek + (IF dayOfWeek = 0 THEN -6 ELSE 1)
    IN  SetHoursStartOfDay(SetDate(t, diff))

\* e.date.startsWith(day): the timestamp string begins with the date string.
StartsWith(date, day) == ToISODate(date) = day

\* The date predicate with "today" compared on the local calendar day.
DatePredicateLocalToday(e, f, t) ==
    CASE f = "today" -> LocalDay(e.date) = LocalDay(t)
      [] f = "week"  -> e.date >= firstDayOfWeek(t)
      [] f = "month" -> /\ GetMonth(e.date) = GetMonth(t)
                        /\ GetFullYear(e.date) = GetFullYear(t)
      [] OTHER       -> TRUE

\* The date predicate with "month" compared on the month alone.
DatePredicateMonthOnly(e, f, t) ==
    CASE f = "today" -> StartsWith(e.date, ToISODate(t))
      [] f = "week"  -> e.date >= firstDayOfWeek(t)
      [] f = "month" -> GetMonth(e.date) = GetMonth(t)
      [] OTHER       -> TRUE

\* The date predicate of filteredExpenses for filter f at instant t.
DatePredicate(e, f, t) ==
    CASE f = "today" -> StartsWith(e.date, ToISODate(t))
      [] f = "week"  -> e.date >= firstDayOfWeek(t)
      [] f = "month" -> /\ GetMonth(e.date) = GetMonth(t)
                        /\ GetFullYear(e.date) = GetFullYear(t)
      [] OTHER       -> TRUE

\* selectedCategories.includes(c)
Includes(cats, c) == \E i \in 1..Len(cats) : cats[i] = c

\* The category stage without the test for an empty selection.
CategoryStageNoGuard(exps, cats) ==
    SelectSeq(exps, LAMBDA e : Includes(cats, e.category))

\* The category stage of filteredExpenses.
CategoryStage(exps, cats) ==
    IF Len(cats) > 0 THEN SelectSeq(exps, LAMBDA e : Includes(cats, e.category))
    ELSE exps

\* The date stage of filteredExpenses.
DateStage(exps, f, t) ==
    IF f \in {"today", "week", "month"}
    THEN SelectSeq(exps, LAMBDA e : DatePredicate(e, f, t))
    ELSE exps

\* The two stages joined by "or" instead of applied one after the other.
FilterExpensesEither(exps, f, cats, t) ==
    SelectSeq(exps, LAMBDA e : \/ DatePredicate(e, f, t)
                               \/ Includes(cats, e.category))

\* filteredExpenses as a function of its inputs.
FilterExpenses(exps, f, cats, t) == CategoryStage(DateStage(exps, f, t), cats)

filteredExpenses == FilterExpenses(sortedExpenses, dateFilter, selectedCategories, now)

\* [...new Set(activeTrip.expenses.map(e => e.category))]
uniqueCategoriesInTrip == {trip.expenses[i].category : i \in 1..Len(trip.expenses)}

\* ------------------------------------------- burn curve (both charts)
\* The duration without the clamp to at least one day.
TotalTripDurationUnclamped(tr) ==
    (ParseISODate(tr.endDate) - ParseISODate(tr.startDate)) \div DayLen + 1

\* Math.max(1, (tripEnd - tripStart) / (1000 * 3600 * 24) + 1); the dates
\* are date-only, so the quotient is a whole number.
TotalTripDuration(tr) ==
    LET days == (ParseISODate(tr.endDate) - ParseISODate(tr.startDate)) \div DayLen + 1
    IN  IF days > 1 THEN days ELSE 1

\* The daily burn with the duration taken exclusive of the last day.
IdealDailyBurnExclusive(tr) ==
    IF tr.totalBudget > 0
    THEN [num |-> tr.totalBudget, den |-> TotalTripDuration(tr) - 1]
    ELSE [num |-> 0, den |-> 1]

\* trip.totalBudget > 0 ? trip.totalBudget / totalTripDuration : 0
IdealDailyBurn(tr) ==
    IF tr.totalBudget > 0
    THEN [num |-> tr.totalBudget, den |-> TotalTripDuration(tr)]
    ELSE [num |-> 0, den |-> 1]

\* map.get(key) || 0
GetOrZero(map, key) == IF key \in DOMAIN map THEN map[key] ELSE 0

\* The dailySpending map the forEach builds: ISO date -> sum of the amounts,
\* each converted to the main currency, of the expenses of that UTC day.
RECURSIVE DailySpending(_, _)
DailySpending(exps, main) ==
    IF exps = <<>> THEN <<>>
    ELSE LET map  == DailySpending(SubSeq(exps, 1, Len(exps) - 1), main)
             e    == exps[Len(exps)]
             date == ToISODate(e.date)
             amountInMain == Convert(e.amount, e.currency, main)
         IN  (date :> (GetOrZero(map, date) + amountInMain)) @@ map

\* today.setHours(23, 59, 59, 999); lastDate = today < tripEnd ? today : tripEnd
LastDate(tr, t) ==
    LET today   == SetHoursEndOfDay(t)
        tripEnd == ParseISODate(tr.endDate)
    IN  IF today < tripEnd THEN today ELSE tripEnd

\* currentDate.setDate(currentDate.getDate() + 1)
NextDay(currentDate) == SetDate(currentDate, GetDate(currentDate) + 1)

\* The loop with cumulativeSpent overwritten instead of accumulated.
RECURSIVE AdvancedLoopNoAccumulation(_, _, _, _, _, _, _)
AdvancedLoopNoAccumulation(currentDate, lastDate, daysElapsed, cumulativeSpent, dailySpending, burn, dataPoints) ==
    IF currentDate <= lastDate
    THEN LET spentToday == GetOrZero(dailySpending, ToISODate(currentDate))
         IN  AdvancedLoopNoAccumulation(NextDay(currentDate), lastDate,
                 daysElapsed + 1, spentToday, dailySpending, burn,
                 Append(dataPoints,
                     [fullDate |-> currentDate,
                      spesaGiornaliera |-> IF spentToday > 0 THEN spentToday ELSE Null,
                      spesaCumulativa |-> spentToday,
                      budgetCumulativoIdeale |->
                          [num |-> burn.num * (daysElapsed + 1), den |-> burn.den]]))
    ELSE dataPoints

\* AdvancedBudgetChart: the while loop, from the state before an iteration.
RECURSIVE AdvancedLoop(_, _, _, _, _, _, _)
AdvancedLoop(currentDate, lastDate, daysElapsed, cumulativeSpent, dailySpending, burn, dataPoints) ==
    IF currentDate <= lastDate
    THEN LET spentToday == GetOrZero(dailySpending, ToISODate(currentDate))
         IN  AdvancedLoop(NextDay(currentDate), lastDate, daysElapsed + 1,
                 cumulativeSpent + spentToday, dailySpending, burn,
                 Append(dataPoints,
                     [fullDate |-> currentDate,
                      spesaGiornaliera |-> IF spentToday > 0 THEN spentToday ELSE Null,
                      spesaCumulativa |-> cumulativeSpent + spentToday,
                      budgetCumulativoIdeale |->
                          [num |-> burn.num * (daysElapsed + 1), den |-> burn.den]]))
    ELSE dataPoints

\* AdvancedBudgetChart.chartData for the expenses exps, trip tr, at instant t.
AdvancedChartData(exps, tr, t) ==
    LET tripStart == ParseISODate(tr.startDate)
        lastDate  == LastDate(tr, t)
    IN  IF lastDate < tripStart THEN <<>>
        ELSE AdvancedLoop(tripStart, lastDate, 0, 0,
                          DailySpending(exps, tr.mainCurrency),
                          IdealDailyBurn(tr), <<>>)

\* BudgetTrendChart: the while loop, from the state before an iteration.
RECURSIVE TrendLoop(_, _, _, _, _, _, _)
TrendLoop(currentDate, lastDate, daysElapsed, cumulativeSpent, dailySpending, burn, dataPoints) ==
    IF currentDate <= lastDate
    THEN LET spentToday == GetOrZero(dailySpending, ToISODate(currentDate))
         IN  TrendLoop(NextDay(currentDate), lastDate, daysElapsed + 1,
                 cumulativeSpent + spentToday, dailySpending, burn,
                 Append(dataPoints,
                     [fullDate |-> currentDate,
                      spesaReale |-> cumulativeSpent + spentToday,
                      spesaIdeale |->
                          [num |-> burn.num * (daysElapsed + 1), den |-> burn.den]]))
    ELSE dataPoints

\* The trend chart drawn to the trip's end whatever the day is today.
TrendChartDataFullRange(exps, tr, t) ==
    LET tripStart == ParseISODate(tr.startDate)
        lastDate  == ParseISODate(tr.endDate)
    IN  IF lastDate < tripStart THEN <<>>
        ELSE TrendLoop(tripStart, lastDate, 0, 0,
                       DailySpending(exps, tr.mainCurrency),
                       IdealDailyBurn(tr), <<>>)

\* BudgetTrendChart.chartData for the expenses exps, trip tr, at instant t.
TrendChartData(exps, tr, t) ==
    LET tripStart == ParseISODate(tr.startDate)
        lastDate  == LastDate(tr, t)
    IN  IF lastDate < tripStart THEN <<>>
        ELSE TrendLoop(tripStart, lastDate, 0, 0,
                       DailySpending(exps, tr.mainCurrency),
                       IdealDailyBurn(tr), <<>>)

\* The two charts as the Dashboard renders them.
advancedChartData == AdvancedChartData(filteredExpenses, trip, now)
trendChartData == TrendChartData(filteredExpenses, trip, now)

\* ------------------------------------------------------- day drill-down
\* handleBarClick that selects the clicked day whatever the selection is.
HandleBarClickNoToggle(data, selectedDate) == ToISODate(data.fullDate)

\* handleBarClick: the date it hands to onDaySelect for a click on the bar of
\* the bucket data: null when that day is the selected one, else that day.
HandleBarClick(data, selectedDate) ==
    LET dateStr == ToISODate(data.fullDate)
    IN  IF dateStr = selectedDate THEN Null ELSE dateStr

\* expensesForSelectedDay for the list exps and the selection day.
ExpensesForSelectedDay(exps, day) ==
    IF day = Null THEN <<>>
    ELSE SelectSeq(exps, LAMBDA e : StartsWith(e.date, day))

expensesForSelectedDay == ExpensesForSelectedDay(filteredExpenses, selectedDayForDetail)

\* ------------------------------------------------ category aggregation
\* The number a property name stands for when it is a canonical array index
\* ("7", "24": decimal digits, no leading zero), Null for any other name.
ArrayIndexOf(name) ==
    CASE name = "7" -> 7 [] name = "24" -> 24 [] OTHER -> Null

\* The keys of the object the forEach fills, in the order they are created:
\* the categories of exps, each at its first occurrence.
RECURSIVE InsertionOrder(_)
InsertionOrder(exps) ==
    IF exps = <<>> THEN <<>>
    ELSE LET keys == InsertionOrder(SubSeq(exps, 1, Len(exps) - 1))
             c    == exps[Len(exps)].category
         IN  IF \E i \in 1..Len(keys) : keys[i] = c THEN keys ELSE Append(keys, c)

\* The order Object.entries / Object.values list an object's own keys in:
\* the array-index keys in ascending numeric order, then the other string
\* keys in the order they were created.
OwnKeysOrder(keys) ==
    LET isIndex(k) == ArrayIndexOf(k) /= Null
        indexKeys  == SelectSeq(keys, isIndex)
        n          == Len(indexKeys)
        rank(i)    == 1 + Cardinality({j \in 1..n :
                          ArrayIndexOf(indexKeys[j]) < ArrayIndexOf(indexKeys[i])})
    IN  [k \in 1..n |-> indexKeys[CHOOSE i \in 1..n : rank(i) = k]]
        \o SelectSeq(keys, LAMBDA k : ~isIndex(k))

\* The spending object: category -> sum of its expenses' converted amounts.
RECURSIVE SpendingByCategory(_, _)
SpendingByCategory(exps, main) ==
    IF exps = <<>> THEN <<>>
    ELSE LET map == SpendingByCategory(SubSeq(exps, 1, Len(exps) - 1), main)
             e   == exps[Len(exps)]
             amountInMain == Convert(e.amount, e.currency, main)
         IN  (e.category :> (GetOrZero(map, e.category) + amountInMain)) @@ map

\* values.reduce((sum, amount) => sum + amount, 0)
RECURSIVE SumValues(_, _)
SumValues(map, keys) ==
    IF keys = <<>> THEN 0
    ELSE SumValues(map, SubSeq(keys, 1, Len(keys) - 1)) + map[keys[Len(keys)]]

\* The sum of the amounts as entered, without conversion.
RECURSIVE SumEntered(_)
SumEntered(exps) ==
    IF exps = <<>> THEN 0
    ELSE SumEntered(SubSeq(exps, 1, Len(exps) - 1)) + exps[Len(exps)].amount

\* totalSpent > 0 ? (amount / totalSpent) * 100 : 0
Percentage(amount, totalSpent) ==
    IF totalSpent > 0 THEN [num |-> amount * 100, den |-> totalSpent]
    ELSE [num |-> 0, den |-> 1]

\* dataByCategory with the total taken from the amounts as entered.
DataByCategoryUnconvertedTotal(exps, main) ==
    LET spending   == SpendingByCategory(exps, main)
        keys       == OwnKeysOrder(InsertionOrder(exps))
        totalSpent == SumEntered(exps)
        entries    == [i \in 1..Len(keys) |->
                          [name |-> keys[i], amount |-> spending[keys[i]],
                           percentage |-> Percentage(spending[keys[i]], totalSpent)]]
    IN  Permute(entries, SortDescOrder([i \in 1..Len(entries) |-> entries[i].amount]))

\* CategoryChart.dataByCategory (the display icon left out).
DataByCategory(exps, main) ==
    LET spending   == SpendingByCategory(exps, main)
        keys       == OwnKeysOrder(InsertionOrder(exps))
        totalSpent == SumValues(spending, keys)
        entries    == [i \in 1..Len(keys) |->
                          [name |-> keys[i], amount |-> spending[keys[i]],
                           percentage |-> Percentage(spending[keys[i]], totalSpent)]]
    IN  Permute(entries, SortDescOrder([i \in 1..Len(entries) |-> entries[i].amount]))

\* ExpenseTreemap.treemapData.
TreemapData(exps, main) ==
    LET spending == SpendingByCategory(exps, main)
        keys     == OwnKeysOrder(InsertionOrder(exps))
        data     == [i \in 1..Len(keys) |->
                        [name |-> keys[i], size |-> spending[keys[i]]]]
    IN  Permute(data, SortDescOrder([i \in 1..Len(data) |-> data[i].size]))

\* The two as the Dashboard renders them.
dataByCategory == DataByCategory(filteredExpenses, trip.mainCurrency)
treemapData == TreemapData(filteredExpenses, trip.mainCurrency)

\* --------------------------------------------------------- StatsSummary
\* null, where the value is otherwise an object.
NullObject == [null |-> TRUE]

\* null, where the value is otherwise a string.
NullString == "null"

\* expensesInMainCurrency: the mainAmount of each expense, in list order.
MainAmounts(exps, main) ==
    [i \in 1..Len(exps) |-> Convert(exps[i].amount, exps[i].currency, main)]

\* The largest expense taken by the amount as entered.
LargestExpenseByEnteredAmount(exps, main) ==
    LET first == SortDescOrder([i \in 1..Len(exps) |-> exps[i].amount])[1]
    IN  [expense |-> exps[first], mainAmount |-> MainAmounts(exps, main)[first]]

\* [...expensesInMainCurrency].sort((a, b) => b.mainAmount - a.mainAmount)[0]
LargestExpense(exps, main) ==
    LET first == SortDescOrder(MainAmounts(exps, main))[1]
    IN  [expense |-> exps[first], mainAmount |-> MainAmounts(exps, main)[first]]

\* The keys of spendingByDay in the order they are created: the ISO dates of
\* exps, each at its first occurrence ("2024-01-31" is no array index, so
\* Object.entries lists the keys in this order).
RECURSIVE DayInsertionOrder(_)
DayInsertionOrder(exps) ==
    IF exps = <<>> THEN <<>>
    ELSE LET keys == DayInsertionOrder(SubSeq(exps, 1, Len(exps) - 1))
             date == ToISODate(exps[Len(exps)].date)
         IN  IF \E i \in 1..Len(keys) : keys[i] = date THEN keys ELSE Append(keys, date)

\* spendingByDay: ISO date -> sum of the mainAmounts of that day's expenses.
RECURSIVE SpendingByDay(_, _)
SpendingByDay(exps, main) ==
    IF exps = <<>> THEN <<>>
    ELSE LET map  == SpendingByDay(SubSeq(exps, 1, Len(exps) - 1), main)
             e    == exps[Len(exps)]
             date == ToISODate(e.date)
         IN  (date :> (GetOrZero(map, date) + Convert(e.amount, e.currency, main))) @@ map

\* The highest spending day taken from the first entry, the entries unsorted.
HighestSpendingDayUnsorted(exps, main) ==
    LET spendingByDay == SpendingByDay(exps, main)
        keys          == DayInsertionOrder(exps)
    IN  [date |-> keys[1], amount |-> spendingByDay[keys[1]]]

\* Object.entries(spendingByDay).sort((a, b) => b[1] - a[1])[0]
HighestSpendingDay(exps, main) ==
    LET spendingByDay == SpendingByDay(exps, main)
        keys          == DayInsertionOrder(exps)
        first == SortDescOrder([i \in 1..Len(keys) |-> spendingByDay[keys[i]]])[1]
    IN  [date |-> keys[first], amount |-> spendingByDay[keys[first]]]

\* categoryCounts: category -> number of its expenses.
RECURSIVE CategoryCounts(_)
CategoryCounts(exps) ==
    IF exps = <<>> THEN <<>>
    ELSE LET map == CategoryCounts(SubSeq(exps, 1, Len(exps) - 1))
             c   == exps[Len(exps)].category
         IN  (c :> (GetOrZero(map, c) + 1)) @@ map

\* Object.entries(categoryCounts).sort((a, b) => b[1] - a[1])[0]
\* (the display icon left out).
MostFrequentCategory(exps) ==
    LET categoryCounts == CategoryCounts(exps)
        keys           == OwnKeysOrder(InsertionOrder(exps))
        first == SortDescOrder([i \in 1..Len(keys) |-> categoryCounts[keys[i]]])[1]
    IN  [name |-> keys[first], count |-> categoryCounts[keys[first]]]

\* expensesInMainCurrency.reduce((sum, e) => sum + e.mainAmount, 0)
RECURSIVE SumSeq(_)
SumSeq(amounts) ==
    IF amounts = <<>> THEN 0
    ELSE SumSeq(SubSeq(amounts, 1, Len(amounts) - 1)) + amounts[Len(amounts)]

\* The summary of a list, computed without looking at its length.
SummaryOf(exps, main) ==
    [largestExpense       |-> LargestExpense(exps, main),
     highestSpendingDay   |-> HighestSpendingDay(exps, main),
     mostFrequentCategory |-> MostFrequentCategory(exps),
     avgTransaction       |-> [num |-> SumSeq(MainAmounts(exps, main)),
                               den |-> Len(exps)]]

\* The summary with the empty list given zero entries: a day and a category
\* of amount and count 0, and the average as the quotient 0 / 0.
SummaryZeroEntries(exps, main) ==
    IF Len(exps) = 0
    THEN [largestExpense       |-> NullObject,
          highestSpendingDay   |-> [date |-> Null, amount |-> 0],
          mostFrequentCategory |-> [name |-> "", count |-> 0],
          avgTransaction       |-> [num |-> 0, den |-> 0]]
    ELSE SummaryOf(exps, main)

\* StatsSummary.summary; avgTransaction is the quotient num / den (0 is 0 / 1).
Summary(exps, main) ==
    IF Len(exps) = 0
    THEN [largestExpense       |-> NullObject,
          highestSpendingDay   |-> NullObject,
          mostFrequentCategory |-> NullObject,
          avgTransaction       |-> [num |-> 0, den |-> 1]]
    ELSE SummaryOf(exps, main)

\* The StatItems StatsSummary renders: none when the list is empty, else one
\* for each highlight that is not null and for a positive average.
StatItems(exps, main) ==
    LET summary == Summary(exps, main)
    IN  IF Len(exps) = 0 THEN {}
        ELSE {h \in {"largestExpense", "highestSpendingDay", "mostFrequentCategory"} :
                  summary[h] /= NullObject}
             \cup (IF summary.avgTransaction.num > 0 THEN {"avgTransaction"} ELSE {})

\* The summary and its items as the Dashboard renders them.
summary == Summary(filteredExpenses, trip.mainCurrency)
statItems == StatItems(filteredExpenses, trip.mainCurrency)

\* ----------------------------------------------- ExpenseCalendarHeatmap
\* maxSpend taken as the largest amount of one expense.
RECURSIVE DailyDataAndMaxOfAmounts(_, _)
DailyDataAndMaxOfAmounts(exps, main) ==
    IF exps = <<>> THEN [dailyData |-> <<>>, maxSpend |-> 0]
    ELSE LET prev     == DailyDataAndMaxOfAmounts(SubSeq(exps, 1, Len(exps) - 1), main)
             expense  == exps[Len(exps)]
             date     == ToISODate(expense.date)
             amount   == Convert(expense.amount, expense.currency, main)
             newTotal == GetOrZero(prev.dailyData, date) + amount
         IN  [dailyData |-> (date :> newTotal) @@ prev.dailyData,
              maxSpend  |-> IF amount > prev.maxSpend THEN amount ELSE prev.maxSpend]

\* dailyData and maxSpend as the forEach leaves them: the totals per ISO
\* date, and the largest value any total took while the list was read.
RECURSIVE DailyDataAndMax(_, _)
DailyDataAndMax(exps, main) ==
    IF exps = <<>> THEN [dailyData |-> <<>>, maxSpend |-> 0]
    ELSE LET prev     == DailyDataAndMax(SubSeq(exps, 1, Len(exps) - 1), main)
             expense  == exps[Len(exps)]
             date     == ToISODate(expense.date)
             amount   == Convert(expense.amount, expense.currency, main)
             newTotal == GetOrZero(prev.dailyData, date) + amount
         IN  [dailyData |-> (date :> newTotal) @@ prev.dailyData,
              maxSpend  |-> IF newTotal > prev.maxSpend THEN newTotal ELSE prev.maxSpend]

\* The while loop of calendarGrid: one day cell per local day from
\* currentDate up to end, its amount looked up under the ISO date of the
\* cell's instant.
RECURSIVE GridLoop(_, _, _, _)
GridLoop(currentDate, end, dailyData, grid) ==
    IF currentDate <= end
    THEN GridLoop(NextDay(currentDate), end, dailyData,
                  Append(grid, [type   |-> "day",
                                date   |-> currentDate,
                                amount |-> GetOrZero(dailyData, ToISODate(currentDate))]))
    ELSE grid

\* calendarGrid: the empty cells before the first day, then the day cells.
CalendarGrid(tr, dailyData) ==
    LET start == ParseISODate(tr.startDate)
        end   == ParseISODate(tr.endDate)
        firstDayOfWeekOffset == (GetDay(start) + 6) % 7
    IN  GridLoop(SetHoursStartOfDay(start), end, dailyData,
                 [i \in 1..firstDayOfWeekOffset |-> [type |-> "empty"]])

\* getColor with the thresholds applied to amount / maxSpend itself.
getColorLinear(amount, maxSpend) ==
    IF amount <= 0 THEN "bg-surface-variant/50"
    ELSE IF 4 * amount < maxSpend     THEN "bg-primary-container/40"
    ELSE IF 2 * amount < maxSpend     THEN "bg-primary-container/70"
    ELSE IF 4 * amount < 3 * maxSpend THEN "bg-primary-container"
    ELSE "bg-primary"

\* getColor.  intensity = sqrt(amount / maxSpend) is compared through its
\* square: intensity < k / 4 exactly when 16 * amount < k * k * maxSpend
\* (and amount / 0 is Infinity, below no threshold).
getColor(amount, maxSpend) ==
    IF amount <= 0 THEN "bg-surface-variant/50"
    ELSE IF 16 * amount < maxSpend     THEN "bg-primary-container/40"
    ELSE IF 16 * amount < 4 * maxSpend THEN "bg-primary-container/70"
    ELSE IF 16 * amount < 9 * maxSpend THEN "bg-primary-container"
    ELSE "bg-primary"

\* The heatmap as the Dashboard renders it: the grid, and the colour of
\* each of its day cells.
heatmap == DailyDataAndMax(filteredExpenses, trip.mainCurrency)
calendarGrid == CalendarGrid(trip, heatmap.dailyData)
dayColors ==
    LET grid == calendarGrid
        maxSpend == heatmap.maxSpend
    IN  [i \in {j \in 1..Len(grid) : grid[j].type = "day"} |->
            getColor(grid[i].amount, maxSpend)]

\* ---------------------------------------------------- CountrySpendChart
\* CURRENCY_TO_COUNTRY[currency]: the lookup knows the dollar's country and
\* none for the euro, which many countries share (undefined is NullString).
CurrencyToCountry(currency) ==
    IF currency = "USD" THEN "Stati Uniti" ELSE NullString

\* e.country || CURRENCY_TO_COUNTRY[e.currency]: the field when it is set
\* (and not the empty string), else the lookup.
CountryOf(e) ==
    IF e.country /= NullString /\ e.country /= "" THEN e.country
    ELSE CurrencyToCountry(e.currency)

\* The keys of spendingByCountry in the order trip.countries.forEach creates
\* them: the declared countries, each at its first occurrence.
RECURSIVE CountryKeys(_)
CountryKeys(countries) ==
    IF countries = <<>> THEN <<>>
    ELSE LET keys == CountryKeys(SubSeq(countries, 1, Len(countries) - 1))
             c    == countries[Len(countries)]
         IN  IF \E i \in 1..Len(keys) : keys[i] = c THEN keys ELSE Append(keys, c)

\* spendingByCountry with every expense of a resolved country added, the
\* country declared by the trip or not.
RECURSIVE SpendingByCountryAnyCountry(_, _)
SpendingByCountryAnyCountry(exps, tr) ==
    IF exps = <<>> THEN [c \in {tr.countries[i] : i \in 1..Len(tr.countries)} |-> 0]
    ELSE LET map     == SpendingByCountryAnyCountry(SubSeq(exps, 1, Len(exps) - 1), tr)
             e       == exps[Len(exps)]
             country == CountryOf(e)
             key     == IF country \in DOMAIN map THEN country ELSE tr.countries[1]
         IN  IF country /= NullString
             THEN [map EXCEPT ![key] = @ + Convert(e.amount, e.currency, tr.mainCurrency)]
             ELSE map

\* spendingByCountry: 0 for each declared country, then the converted amount
\* of each expense whose country is resolved and is one of the keys.
RECURSIVE SpendingByCountry(_, _)
SpendingByCountry(exps, tr) ==
    IF exps = <<>> THEN [c \in {tr.countries[i] : i \in 1..Len(tr.countries)} |-> 0]
    ELSE LET map     == SpendingByCountry(SubSeq(exps, 1, Len(exps) - 1), tr)
             e       == exps[Len(exps)]
             country == CountryOf(e)
         IN  IF country /= NullString /\ country \in DOMAIN map
             THEN [map EXCEPT ![country] = @ + Convert(e.amount, e.currency, tr.mainCurrency)]
             ELSE map

\* CountrySpendChart.chartData: nothing for a trip of at most one declared
\* country, else the countries of positive amount, the largest first.
CountryChartData(exps, tr) ==
    IF Len(tr.countries) <= 1 THEN <<>>
    ELSE LET spending == SpendingByCountry(exps, tr)
             keys     == CountryKeys(tr.countries)
             entries  == [i \in 1..Len(keys) |->
                             [country |-> keys[i], amount |-> spending[keys[i]]]]
             positive == SelectSeq(entries, LAMBDA item : item.amount > 0)
         IN  Permute(positive, SortDescOrder([i \in 1..Len(positive) |-> positive[i].amount]))

\* ------------------------------------------------------- DailySpendChart
\* DailySpendChart.chartData: one entry per ISO date that has an expense,
\* with the day's total, the earliest day first (the list empty: nothing).
DailyChartData(exps, main) ==
    IF Len(exps) = 0 THEN <<>>
    ELSE LET spendingByDay == SpendingByDay(exps, main)
             keys    == DayInsertionOrder(exps)
             entries == [i \in 1..Len(keys) |->
                            [date |-> keys[i], amount |-> spendingByDay[keys[i]]]]
         IN  Permute(entries, SortDescOrder([i \in 1..Len(entries) |-> -entries[i].date]))

\* The two as the Dashboard renders them.
countryChartData == CountryChartData(filteredExpenses, trip)
dailyChartData == DailyChartData(filteredExpenses, trip.mainCurrency)

\* ------------------------------------------------ AIForecast day counts
\* Math.ceil(num / den) for den > 0.
CeilDiv(num, den) == -((-num) \div den)

\* totalDays of analysisData.
ForecastTotalDays(tr) ==
    LET days == (ParseISODate(tr.endDate) - ParseISODate(tr.startDate)) \div DayLen + 1
    IN  IF days > 1 THEN days ELSE 1

\* daysElapsed without the clamp to at least 1.
ForecastDaysElapsedUnclamped(tr, t) ==
    CeilDiv(t - ParseISODate(tr.startDate), DayLen) + 1

\* daysElapsed of analysisData: Math.max(1, Math.ceil((today - tripStart) / day + 1)).
ForecastDaysElapsed(tr, t) ==
    LET elapsed == CeilDiv(t - ParseISODate(tr.startDate), DayLen) + 1
    IN  IF elapsed > 1 THEN elapsed ELSE 1

\* ------------------------------------------------------ AI components
\* The sample size below which neither payload is built.
MinSample == 3

\* Math.round(num / den) for den > 0: to the nearest integer, a half upward.
RoundDiv(num, den) == (2 * num + den) \div (2 * den)

\* AIInsights.dataSummary (toFixed(2) leaves the integer amounts unchanged).
DataSummary(exps, main) ==
    IF Len(exps) < MinSample THEN NullObject
    ELSE LET firstDate == exps[Len(exps)].date
             lastDate  == exps[1].date
         IN  [totalSpent         |-> SumSeq(MainAmounts(exps, main)),
              numberOfExpenses   |-> Len(exps),
              durationDays       |-> RoundDiv(lastDate - firstDate, DayLen) + 1,
              spendingByCategory |-> SpendingByCategory(exps, main)]

\* The payload of a trip seen before its end, whatever the size of the list.
AnalysisDataOf(exps, tr, today) ==
    LET totalSpent  == SumSeq(MainAmounts(exps, tr.mainCurrency))
        totalDays   == ForecastTotalDays(tr)
        daysElapsed == ForecastDaysElapsed(tr, today)
        recent      == SubSeq(exps, 1, IF Len(exps) < 15 THEN Len(exps) ELSE 15)
    IN  [totalBudget     |-> tr.totalBudget,
         mainCurrency    |-> tr.mainCurrency,
         totalDays       |-> totalDays,
         daysElapsed     |-> daysElapsed,
         daysRemaining   |-> IF totalDays > daysElapsed THEN totalDays - daysElapsed ELSE 0,
         totalSpent      |-> totalSpent,
         currentDailyAvg |-> [num |-> totalSpent, den |-> daysElapsed],
         recentExpenses  |-> [i \in 1..Len(recent) |->
                                 [category |-> recent[i].category,
                                  amount   |-> Convert(recent[i].amount, recent[i].currency,
                                                       tr.mainCurrency)]]]

\* analysisData without the check of the trip's end.
AnalysisDataNoEndCheck(exps, tr, today) ==
    IF Len(exps) < MinSample THEN NullObject
    ELSE AnalysisDataOf(exps, tr, today)

\* AIForecast.analysisData, today being new Date().
AnalysisData(exps, tr, today) ==
    IF Len(exps) < MinSample THEN NullObject
    ELSE IF today > ParseISODate(tr.endDate) THEN NullObject
    ELSE AnalysisDataOf(exps, tr, today)

\* The two payloads as the Dashboard's components build them.
dataSummary == DataSummary(filteredExpenses, trip.mainCurrency)
analysisData == AnalysisData(filteredExpenses, trip, now)

\* The useState initial values of the two components, and no call in flight:
\* per component, the calls its mounted instance awaits and those whose
\* instance has left the tree.
InitialInsights == [isLoading |-> FALSE, insights |-> <<>>, error |-> NullString]
InitialForecast == [isLoading |-> FALSE, result |-> NullObject, error |-> NullString]
NoCalls == [c \in {"AIInsights", "AIForecast"} |-> [awaited |-> 0, dropped |-> 0]]

\* The Dashboard renders the AI components, the charts and the statistics
\* unless the filters leave nothing of a non-empty expense list.
AnalyticsMounted == ~(Len(filteredExpenses) = 0 /\ Len(sortedExpenses) > 0)

\* generateInsights that keeps the error of the attempt before.
GenerateInsightsKeepError(state, summ) ==
    IF summ = NullObject
    THEN [state |-> [state EXCEPT !.error = "Non ci sono abbastanza dati"], request |-> FALSE]
    ELSE [state |-> [state EXCEPT !.isLoading = TRUE, !.insights = <<>>], request |-> TRUE]

\* generateInsights up to its await: the state of the component it leaves,
\* and whether it has called generateContent.
GenerateInsights(state, summ) ==
    IF summ = NullObject
    THEN [state |-> [state EXCEPT !.error = "Non ci sono abbastanza dati"], request |-> FALSE]
    ELSE [state |-> [isLoading |-> TRUE, insights |-> <<>>, error |-> NullString],
          request |-> TRUE]

\* generateForecast that leaves the forecast of the request before in place.
GenerateForecastKeepResult(state, analysis) ==
    IF analysis = NullObject
    THEN [state |-> [state EXCEPT !.error = "Non ci sono abbastanza dati o il viaggio e' terminato"],
          request |-> FALSE]
    ELSE [state |-> [state EXCEPT !.isLoading = TRUE, !.error = NullString],
          request |-> TRUE]

\* generateForecast up to its await, likewise.
GenerateForecast(state, analysis) ==
    IF analysis = NullObject
    THEN [state |-> [state EXCEPT !.error = "Non ci sono abbastanza dati o il viaggio e' terminato"],
          request |-> FALSE]
    ELSE [state |-> [isLoading |-> TRUE, result |-> NullObject, error |-> NullString],
          request |-> TRUE]

\* What may come back from generateContent: the call is rejected, the text
\* is not JSON, the JSON has no forecast (no insight), or it has.
Responses == {"rejected", "unparsable", "empty", "ok"}

\* The message the catch block sets for a failure.
FailureMessage(response) ==
    CASE response = "rejected"   -> "Analisi fallita. rejected"
      [] response = "unparsable" -> "Analisi fallita. SyntaxError"
      [] response = "empty"      -> "Analisi fallita. L'AI non ha fornito"

\* generateInsights after its await whose catch leaves the loading flag set.
InsightsSettledNoFinally(state, response) ==
    IF response = "ok"
    THEN [state EXCEPT !.insights = <<"insight">>, !.isLoading = FALSE]
    ELSE [state EXCEPT !.error = FailureMessage(response)]

\* generateInsights after its await: try, catch and finally.
InsightsSettled(state, response) ==
    IF response = "ok"
    THEN [state EXCEPT !.insights = <<"insight">>, !.isLoading = FALSE]
    ELSE [state EXCEPT !.error = FailureMessage(response), !.isLoading = FALSE]

\* generateForecast after its await, likewise.
ForecastSettled(state, response) ==
    IF response = "ok"
    THEN [state EXCEPT !.result = [forecast |-> "forecast", anomalies |-> <<>>],
                       !.isLoading = FALSE]
    ELSE [state EXCEPT !.error = FailureMessage(response), !.isLoading = FALSE]

\* The button of AIInsights shown as by InsightsButton, never disabled.
InsightsButtonNotDisabled(state) ==
    /\ AnalyticsMounted
    /\ ~(Len(filteredExpenses) < MinSample /\ ~state.isLoading)

\* The button of AIInsights, the component being in the given state, is
\* shown (the component renders unless the list is short and nothing is
\* loading) and enabled (disabled={isLoading}).
InsightsButton(state) ==
    /\ AnalyticsMounted
    /\ ~(Len(filteredExpenses) < MinSample /\ ~state.isLoading)
    /\ ~state.isLoading

\* The button of AIForecast, likewise, is shown and enabled.
ForecastButton(state) ==
    /\ AnalyticsMounted
    /\ ~(analysisData = NullObject /\ ~state.isLoading)
    /\ ~state.isLoading

\* The user can click the buttons.
CanGenerateInsights == InsightsButton(aiInsights)
CanGenerateForecast == ForecastButton(aiForecast)

\* ------------------------------------------------ the arrays of a render
\* The arrays a render reads and makes, each an object of its own: a
\* function from the name of an array to its contents.
\* [...array], array.filter(...), array.map(...): a new array of the given
\* name and contents; no array that exists is touched.
ArrayNew(heap, name, contents) == (name :> contents) @@ heap

\* heap[name].sort(...): sort works in place, it puts the array of that name
\* itself into the order ord of its positions.
ArraySort(heap, name, ord) == [heap EXCEPT ![name] = Permute(@, ord)]

\* The order (a, b) => new Date(b.date) - new Date(a.date) sorts exps into.
DateDescOrder(exps) == SortDescOrder([i \in 1..Len(exps) |-> exps[i].date])

\* sortedExpenses made by sorting activeTrip.expenses itself.
SortedExpensesMemoInPlace(heap) ==
    LET sorted == ArraySort(heap, "activeTrip.expenses",
                            DateDescOrder(heap["activeTrip.expenses"]))
    IN  ArrayNew(sorted, "sortedExpenses", sorted["activeTrip.expenses"])

\* The memo sortedExpenses: [...activeTrip.expenses].sort(...).
SortedExpensesMemo(heap) ==
    LET copied == ArrayNew(heap, "sortedExpenses", heap["activeTrip.expenses"])
    IN  ArraySort(copied, "sortedExpenses", DateDescOrder(copied["sortedExpenses"]))

\* The array the memo filteredExpenses returns: sortedExpenses itself when
\* no filter applies, else the array of the last filter call.
FilteredExpensesRef(f, cats) ==
    IF f \in {"today", "week", "month"} \/ Len(cats) > 0
    THEN "filteredExpenses" ELSE "sortedExpenses"

\* The memo filteredExpenses: a filter call for the date filter, another for
\* the categories.
FilteredExpensesMemo(heap, f, cats, t) ==
    LET byDate == f \in {"today", "week", "month"}
        dated  == IF byDate
                  THEN ArrayNew(heap, "filteredExpenses",
                                SelectSeq(heap["sortedExpenses"],
                                          LAMBDA e : DatePredicate(e, f, t)))
                  ELSE heap
        ref    == IF byDate THEN "filteredExpenses" ELSE "sortedExpenses"
    IN  IF Len(cats) > 0
        THEN ArrayNew(dated, "filteredExpenses",
                      SelectSeq(dated[ref], LAMBDA e : Includes(cats, e.category)))
        ELSE dated

\* The memo expensesForSelectedDay: nothing, or a filter call.
ExpensesForSelectedDayMemo(heap, ref, day) ==
    ArrayNew(heap, "expensesForSelectedDay", ExpensesForSelectedDay(heap[ref], day))

\* StatsSummary.summary: expenses.map(...) makes expensesInMainCurrency, of
\* new objects, and the sort for the largest expense works on a copy of it.
StatsSummaryMemo(heap, ref, main) ==
    IF Len(heap[ref]) = 0 THEN heap
    ELSE LET amounts == MainAmounts(heap[ref], main)
             mapped  == ArrayNew(heap, "expensesInMainCurrency",
                            [i \in 1..Len(heap[ref]) |->
                                [expense |-> heap[ref][i], mainAmount |-> amounts[i]]])
             copied  == ArrayNew(mapped, "largestExpense", mapped["expensesInMainCurrency"])
         IN  ArraySort(copied, "largestExpense", SortDescOrder(amounts))

\* CategoryChart.detailedExpenses: expenses.filter(...).sort(...), the sort
\* working on the array filter has made.
DetailedExpensesMemo(heap, ref, selectedCategory) ==
    IF selectedCategory = NullString THEN ArrayNew(heap, "detailedExpenses", <<>>)
    ELSE LET filtered == ArrayNew(heap, "detailedExpenses",
                             SelectSeq(heap[ref], LAMBDA e : e.category = selectedCategory))
         IN  ArraySort(filtered, "detailedExpenses",
                       DateDescOrder(filtered["detailedExpenses"]))

\* The arrays after a render of the Dashboard whose trip holds exps: the
\* memos of the Dashboard, then (unless the notice replaces them) those of
\* StatsSummary and CategoryChart, the other charts sorting no array of
\* expenses.
RenderArrays(exps, f, cats, t, day, selectedCategory, main) ==
    LET ref      == FilteredExpensesRef(f, cats)
        sorted   == SortedExpensesMemo([name \in {"activeTrip.expenses"} |-> exps])
        filtered == FilteredExpensesMemo(sorted, f, cats, t)
        forDay   == ExpensesForSelectedDayMemo(filtered, ref, day)
    IN  IF Len(forDay[ref]) = 0 /\ Len(forDay["sortedExpenses"]) > 0 THEN forDay
        ELSE DetailedExpensesMemo(StatsSummaryMemo(forDay, ref, main), ref, selectedCategory)

\* -------------------------------------------------------------- inputs
TimeZones == {-1, 0, 1}
Categories == {"food", "taxi"}
MainCurrency == "EUR"
LastTick == (BaseDay + MaxDays) * DayLen + DayLen - 1

\* An expense entered without a country (the field is optional).
Expense(id, amount, currency, category, date) ==
    [id |-> id, amount |-> amount, currency |-> currency,
     category |-> category, date |-> date, country |-> NullString]

\* A trip that declares no country and holds no expense yet.
Trip(startDate, endDate, totalBudget) ==
    [startDate |-> startDate, endDate |-> endDate, totalBudget |-> totalBudget,
     mainCurrency |-> MainCurrency, countries |-> <<>>, expenses |-> <<>>]

\* Expense timestamps of the filter scenarios: Monday 2024-01-29 at 00:00Z,
\* Sunday 2024-02-04 at 00:00Z, and February of the year before.
FilterDates ==
    {ParseISODate(BaseDay - 2), ParseISODate(BaseDay + 4),
     ParseISODate(DaysFromCivil(2023, 2, 1))}

\* ------------------------------------------------------------- actions
\* The render that follows a Dashboard update: when the filters leave nothing
\* of a non-empty list the AI components leave the tree, their state is lost
\* (they start from the initial values when they are next mounted) and the
\* calls they were awaiting go on with nobody to take the outcome.  (Where
\* they hold the initial values and await no call, nothing is there to lose.)
Reconcile ==
    IF \/ /\ aiInsights = InitialInsights
          /\ aiForecast = InitialForecast
          /\ \A c \in DOMAIN calls : calls[c].awaited = 0
       \/ AnalyticsMounted'
    THEN UNCHANGED aiVars
    ELSE /\ aiInsights' = InitialInsights
         /\ aiForecast' = InitialForecast
         /\ calls' = [c \in DOMAIN calls |->
                         [awaited |-> 0, dropped |-> calls[c].dropped + calls[c].awaited]]

\* The data context appends a new expense to the active trip.
AddExpense(amount, currency, category, date) ==
    /\ Len(trip.expenses) < MaxExpenses
    /\ trip' = [trip EXCEPT !.expenses =
                    Append(@, Expense(Len(@) + 1, amount, currency, category, date))]
    /\ UNCHANGED <<tz, now, dateFilter, selectedCategories, selectedDayForDetail>>
    /\ Reconcile

\* The data context appends a new expense entered with a country.
AddExpenseInCountry(amount, currency, category, date, country) ==
    /\ Len(trip.expenses) < MaxExpenses
    /\ trip' = [trip EXCEPT !.expenses =
                    Append(@, [Expense(Len(@) + 1, amount, currency, category, date)
                                  EXCEPT !.country = country])]
    /\ UNCHANGED <<tz, now, dateFilter, selectedCategories, selectedDayForDetail>>
    /\ Reconcile

\* Time passes (no state of a component changes, so nothing is rendered).
Tick ==
    /\ now < LastTick
    /\ now' = now + 1
    /\ UNCHANGED <<tz, trip, dateFilter, selectedCategories, selectedDayForDetail>>
    /\ UNCHANGED aiVars

\* A FilterButton is clicked.
SetDateFilter(value) ==
    /\ dateFilter' = value
    /\ UNCHANGED <<tz, now, trip, selectedCategories, selectedDayForDetail>>
    /\ Reconcile

\* A CategoryFilterButton is clicked.
handleCategoryToggle(category) ==
    /\ category \in uniqueCategoriesInTrip
    /\ selectedCategories' =
          IF Includes(selectedCategories, category)
          THEN SelectSeq(selectedCategories, LAMBDA c : c /= category)
          ELSE Append(selectedCategories, category)
    /\ UNCHANGED <<tz, now, trip, dateFilter, selectedDayForDetail>>
    /\ Reconcile

\* "Azzera" is clicked.
ClearCategories ==
    /\ Len(selectedCategories) > 0
    /\ selectedCategories' = <<>>
    /\ UNCHANGED <<tz, now, trip, dateFilter, selectedDayForDetail>>
    /\ Reconcile

\* A bar of AdvancedBudgetChart is clicked, that of its k-th bucket:
\* handleBarClick, whose onDaySelect is handleDaySelect.
handleBarClick(k) ==
    /\ AnalyticsMounted
    /\ k \in 1..Len(advancedChartData)
    /\ selectedDayForDetail' = HandleBarClick(advancedChartData[k], selectedDayForDetail)
    /\ UNCHANGED <<tz, now, trip, dateFilter, selectedCategories>>
    /\ UNCHANGED aiVars

\* The close button of the drill-down panel is clicked.
CloseDayDetail ==
    /\ AnalyticsMounted
    /\ selectedDayForDetail /= Null
    /\ selectedDayForDetail' = Null
    /\ UNCHANGED <<tz, now, trip, dateFilter, selectedCategories>>
    /\ UNCHANGED aiVars

\* The Dashboard renders, a slice of CategoryChart being selected or none:
\* the trip's expense array is what the render's computations leave of it.
Render(selectedCategory) ==
    /\ trip' = [trip EXCEPT !.expenses =
                    RenderArrays(@, dateFilter, selectedCategories, now,
                                 selectedDayForDetail, selectedCategory,
                                 trip.mainCurrency)["activeTrip.expenses"]]
    /\ UNCHANGED <<tz, now, dateFilter, selectedCategories, selectedDayForDetail>>
    /\ UNCHANGED aiVars

\* "Genera Analisi" is clicked: generateInsights runs up to its await.
generateInsights ==
    /\ CanGenerateInsights
    /\ calls["AIInsights"].awaited + calls["AIInsights"].dropped < MaxRequests
    /\ LET call == GenerateInsights(aiInsights, dataSummary)
       IN  /\ aiInsights' = call.state
           /\ calls' = IF call.request
                       THEN [calls EXCEPT !["AIInsights"].awaited = @ + 1]
                       ELSE calls
    /\ UNCHANGED <<tz, now, trip, dateFilter, selectedCategories, selectedDayForDetail,
                   aiForecast>>

\* "Genera Previsione" is clicked: generateForecast runs up to its await.
generateForecast ==
    /\ CanGenerateForecast
    /\ calls["AIForecast"].awaited + calls["AIForecast"].dropped < MaxRequests
    /\ LET call == GenerateForecast(aiForecast, analysisData)
       IN  /\ aiForecast' = call.state
           /\ calls' = IF call.request
                       THEN [calls EXCEPT !["AIForecast"].awaited = @ + 1]
                       ELSE calls
    /\ UNCHANGED <<tz, now, trip, dateFilter, selectedCategories, selectedDayForDetail,
                   aiInsights>>

\* A call AIInsights awaits settles: generateInsights runs to its end.
InsightsResponse(response) ==
    /\ calls["AIInsights"].awaited > 0
    /\ aiInsights' = InsightsSettled(aiInsights, response)
    /\ calls' = [calls EXCEPT !["AIInsights"].awaited = @ - 1]
    /\ UNCHANGED <<tz, now, trip, dateFilter, selectedCategories, selectedDayForDetail,
                   aiForecast>>

\* A call AIForecast awaits settles: generateForecast runs to its end.
ForecastResponse(response) ==
    /\ calls["AIForecast"].awaited > 0
    /\ aiForecast' = ForecastSettled(aiForecast, response)
    /\ calls' = [calls EXCEPT !["AIForecast"].awaited = @ - 1]
    /\ UNCHANGED <<tz, now, trip, dateFilter, selectedCategories, selectedDayForDetail,
                   aiInsights>>

\* A call settles whose component has left the tree: the handler's state
\* updates reach no mounted component.
DroppedResponse(component) ==
    /\ calls[component].dropped > 0
    /\ calls' = [calls EXCEPT ![component].dropped = @ - 1]
    /\ UNCHANGED <<tz, now, trip, dateFilter, selectedCategories, selectedDayForDetail,
                   aiInsights, aiForecast>>

\* --------------------------------------------- the filter specification
InitFilter ==
    /\ tz \in TimeZones
    /\ now = ParseISODate(BaseDay)
    /\ trip = Trip(BaseDay, BaseDay + 2, 12)
    /\ dateFilter = "all"
    /\ selectedCategories = <<>>
    /\ selectedDayForDetail = Null
    /\ aiInsights = InitialInsights
    /\ aiForecast = InitialForecast
    /\ calls = NoCalls

NextFilter ==
    \/ \E c \in Categories, d \in FilterDates : AddExpense(1, MainCurrency, c, d)
    \/ Tick
    \/ \E v \in {"all", "today", "week", "month"} : SetDateFilter(v)
    \/ \E c \in Categories : handleCategoryToggle(c)
    \/ ClearCategories

SpecFilter == InitFilter /\ [][NextFilter]_vars

\* ----------------------------------------- the burn-curve specification
\* Trips starting one or two days into the window, ending on the start day,
\* after it, or (a degenerate range) before it; with and without a budget.
BurnTrips ==
    {Trip(BaseDay + s, BaseDay + e, b) : s \in 1..2, e \in 1..3, b \in {0, 12}}

\* Expense timestamps of the burn-curve scenarios: the first and the last
\* tick of the second day of the window, and the start of the third.
BurnDates ==
    {ParseISODate(BaseDay + 1), ParseISODate(BaseDay + 1) + DayLen - 1,
     ParseISODate(BaseDay + 2)}

InitBurn ==
    /\ tz \in TimeZones
    /\ now = ParseISODate(BaseDay)
    /\ trip \in BurnTrips
    /\ dateFilter = "all"
    /\ selectedCategories = <<>>
    /\ selectedDayForDetail = Null
    /\ aiInsights = InitialInsights
    /\ aiForecast = InitialForecast
    /\ calls = NoCalls

NextBurn ==
    \/ \E c \in Currencies, d \in BurnDates : AddExpense(1, c, "food", d)
    \/ Tick

SpecBurn == InitBurn /\ [][NextBurn]_vars

\* --------------------------------------- the aggregation specification
\* Category names are free-form: two ordinary names and two made of digits.
AggCategories == {"food", "taxi", "7", "24"}

\* Amounts as entered; 0 is the amount a new expense form starts with.
AggAmounts == {0, 1, 2}

InitAgg ==
    /\ tz \in TimeZones
    /\ now = ParseISODate(BaseDay + 1)
    /\ trip = Trip(BaseDay, BaseDay + 2, 12)
    /\ dateFilter = "all"
    /\ selectedCategories = <<>>
    /\ selectedDayForDetail = Null
    /\ aiInsights = InitialInsights
    /\ aiForecast = InitialForecast
    /\ calls = NoCalls

NextAgg ==
    \E a \in AggAmounts, cur \in Currencies, c \in AggCategories :
        AddExpense(a, cur, c, ParseISODate(BaseDay))

SpecAgg == InitAgg /\ [][NextAgg]_vars

\* ------------------------------------------- the statistics specification
\* A name of digits beside an ordinary one.
StatsCategories == {"food", "7"}

\* Amounts as entered (positive, as the data model requires).
StatsAmounts == {1, 2}

\* Expense timestamps of the statistics scenarios: the first and the last
\* tick of the first day of the window, and the start of the second.
StatsDates ==
    {ParseISODate(BaseDay), ParseISODate(BaseDay) + DayLen - 1, ParseISODate(BaseDay + 1)}

InitStats ==
    /\ tz \in TimeZones
    /\ now = ParseISODate(BaseDay + 1)
    /\ trip = Trip(BaseDay, BaseDay + 2, 12)
    /\ dateFilter = "all"
    /\ selectedCategories = <<>>
    /\ selectedDayForDetail = Null
    /\ aiInsights = InitialInsights
    /\ aiForecast = InitialForecast
    /\ calls = NoCalls

NextStats ==
    \/ \E a \in StatsAmounts, cur \in Currencies, c \in StatsCategories, d \in StatsDates :
          AddExpense(a, cur, c, d)
    \/ \E v \in {"all", "today"} : SetDateFilter(v)

SpecStats == InitStats /\ [][NextStats]_vars

\* ---------------------------------------------- the heatmap specification
\* Amounts whose quotients fall inside each band and on each threshold
\* (1/16, 1/4 and 9/16 of the largest), in either currency.
HeatAmounts == {1, 4, 9, 16}

\* Expense timestamps of the heatmap scenarios: the start of the first day
\* of the window, and the first and last tick of the second.
HeatDates ==
    {ParseISODate(BaseDay), ParseISODate(BaseDay + 1),
     ParseISODate(BaseDay + 1) + DayLen - 1}

InitHeat ==
    /\ tz \in TimeZones
    /\ now = ParseISODate(BaseDay + 1)
    /\ trip = Trip(BaseDay, BaseDay + 2, 12)
    /\ dateFilter = "all"
    /\ selectedCategories = <<>>
    /\ selectedDayForDetail = Null
    /\ aiInsights = InitialInsights
    /\ aiForecast = InitialForecast
    /\ calls = NoCalls

NextHeat ==
    \E a \in HeatAmounts, cur \in Currencies, d \in HeatDates :
        AddExpense(a, cur, "food", d)

SpecHeat == InitHeat /\ [][NextHeat]_vars

\* ---------------------------------------- the AI-components specification
\* The expense lists of the AI scenarios: one short of the sample size and
\* one of that size, of February 2023, the last expense of another category.
AIExpenses(n) ==
    [i \in 1..n |-> Expense(i, 1, MainCurrency, IF i < MinSample THEN "food" ELSE "taxi",
                            ParseISODate(DaysFromCivil(2023, 2, 1)) + i)]

\* A trip about to end: its end date is the day before the last of the
\* window, and the clock starts at the last tick before that date.
InitAI ==
    /\ tz = 0
    /\ now = ParseISODate(BaseDay + MaxDays - 1) - 1
    /\ \E n \in {MinSample - 1, MinSample} :
          trip = [Trip(BaseDay, BaseDay + MaxDays - 1, 12) EXCEPT !.expenses = AIExpenses(n)]
    /\ dateFilter = "all"
    /\ selectedCategories = <<>>
    /\ selectedDayForDetail = Null
    /\ aiInsights = InitialInsights
    /\ aiForecast = InitialForecast
    /\ calls = NoCalls

NextAI ==
    \/ Tick
    \/ \E v \in {"all", "week"} : SetDateFilter(v)
    \/ \E c \in Categories : handleCategoryToggle(c)
    \/ generateInsights
    \/ generateForecast
    \/ \E r \in Responses : InsightsResponse(r)
    \/ \E r \in Responses : ForecastResponse(r)
    \/ \E c \in {"AIInsights", "AIForecast"} : DroppedResponse(c)

SpecAI == InitAI /\ [][NextAI]_vars

\* ---------------------------------------------- the country specification
\* The declared countries of a trip: none, one, two.
CountryLists == {<<>>, <<"Italia">>, <<"Italia", "Stati Uniti">>}

\* The country an expense is entered with: none, a declared one, another.
ExpenseCountries == {NullString, "Italia", "Francia"}

\* Expense timestamps of the country scenarios: the first two days.
CountryDates == {ParseISODate(BaseDay), ParseISODate(BaseDay + 1)}

InitCountry ==
    /\ tz = 0
    /\ now = ParseISODate(BaseDay + 1)
    /\ \E cs \in CountryLists :
          trip = [Trip(BaseDay, BaseDay + 2, 12) EXCEPT !.countries = cs]
    /\ dateFilter = "all"
    /\ selectedCategories = <<>>
    /\ selectedDayForDetail = Null
    /\ aiInsights = InitialInsights
    /\ aiForecast = InitialForecast
    /\ calls = NoCalls

NextCountry ==
    \/ \E cur \in Currencies, d \in CountryDates, c \in ExpenseCountries :
          AddExpenseInCountry(1, cur, "food", d, c)
    \/ \E v \in {"all", "today"} : SetDateFilter(v)

SpecCountry == InitCountry /\ [][NextCountry]_vars

\* ------------------------------------------- the drill-down specification
\* Expense timestamps of the drill-down scenarios: the first and the last
\* tick of the first day of the window, and the start of the second.
DetailDates ==
    {ParseISODate(BaseDay), ParseISODate(BaseDay) + DayLen - 1, ParseISODate(BaseDay + 1)}

InitDetail ==
    /\ tz \in TimeZones
    /\ now = ParseISODate(BaseDay + 1)
    /\ trip = Trip(BaseDay, BaseDay + 2, 12)
    /\ dateFilter = "all"
    /\ selectedCategories = <<>>
    /\ selectedDayForDetail = Null
    /\ aiInsights = InitialInsights
    /\ aiForecast = InitialForecast
    /\ calls = NoCalls

NextDetail ==
    \/ \E c \in Categories, d \in DetailDates : AddExpense(1, MainCurrency, c, d)
    \/ \E v \in {"all", "today"} : SetDateFilter(v)
    \/ \E c \in Categories : handleCategoryToggle(c)
    \/ \E k \in 1..(MaxDays + 1) : handleBarClick(k)
    \/ CloseDayDetail
    \/ \E c \in Categories \cup {NullString} : Render(c)

SpecDetail == InitDetail /\ [][NextDetail]_vars

\* --------------------------------------------- the payload specification
\* Expense timestamps of the payload scenarios: the first and the last tick
\* of the first day of the window, the start of the second day, and the
\* second tick of the third.
PayloadDates ==
    {ParseISODate(BaseDay), ParseISODate(BaseDay) + DayLen - 1,
     ParseISODate(BaseDay + 1), ParseISODate(BaseDay + 2) + 1}

\* Lists of one expense more than the sample size: all of one category but
\* the last, so that a category filter leaves a list of the sample size.
PayloadExpenses(first, other, last) ==
    [i \in 1..(MinSample + 1) |->
        Expense(i, 1, IF i = 2 THEN "USD" ELSE MainCurrency,
                IF i <= MinSample THEN "food" ELSE "taxi",
                IF i < MinSample THEN first ELSE IF i = MinSample THEN other ELSE last)]

\* Trips starting one or two days into the window, ending on the start day,
\* after it, or (a degenerate range) before it.
PayloadTrips ==
    {Trip(BaseDay + s, BaseDay + e, 12) : s \in 1..2, e \in 1..3}

InitPayload ==
    /\ tz = 0
    /\ now = ParseISODate(BaseDay)
    /\ \E tr \in PayloadTrips, first, other, last \in PayloadDates :
          trip = [tr EXCEPT !.expenses = PayloadExpenses(first, other, last)]
    /\ dateFilter = "all"
    /\ selectedCategories = <<>>
    /\ selectedDayForDetail = Null
    /\ aiInsights = InitialInsights
    /\ aiForecast = InitialForecast
    /\ calls = NoCalls

NextPayload ==
    \/ Tick
    \/ handleCategoryToggle("food")

SpecPayload == InitPayload /\ [][NextPayload]_vars

\* ====================================================== filter properties
\* The positions of seq whose element satisfies Keep, in increasing order.
KeptPositions(seq, Keep(_)) == {i \in 1..Len(seq) : Keep(seq[i])}

\* The k-th smallest member of a set of positions.
KthOf(S, k) == CHOOSE i \in S : Cardinality({j \in S : j <= i}) = k

\* out is exactly the elements of seq at the positions S, in seq's order.
IsSelection(out, seq, S) ==
    /\ Len(out) = Cardinality(S)
    /\ \A k \in 1..Len(out) : out[k] = seq[KthOf(S, k)]

\* C7: filtering is idempotent (the filter applied to its own output returns
\* that output), and the filter "all" with no category selected returns its
\* input, the date-sorted list, unchanged and in the same order.
C7_FilterIdempotent ==
    /\ FilterExpenses(filteredExpenses, dateFilter, selectedCategories, now)
          = filteredExpenses
    /\ FilterExpenses(sortedExpenses, "all", <<>>, now) = sortedExpenses

\* C7 witness: a filter that keeps one expense and drops another.
C7_Witness ==
    /\ dateFilter /= "all"
    /\ Len(filteredExpenses) >= 1
    /\ Len(filteredExpenses) < Len(sortedExpenses)

\* C8: the filtered list holds exactly the expenses of the input that pass
\* the date predicate and the category predicate (the selection is empty or
\* contains the expense's category), each once and in the input's order.
C8_FilterExact ==
    IsSelection(filteredExpenses, sortedExpenses,
        KeptPositions(sortedExpenses,
            LAMBDA e : /\ DatePredicate(e, dateFilter, now)
                       /\ \/ Len(selectedCategories) = 0
                          \/ Includes(selectedCategories, e.category)))

\* C8 witness: both predicates are active; one expense passes both and
\* another passes the date predicate only.
C8_Witness ==
    /\ dateFilter /= "all"
    /\ Len(selectedCategories) > 0
    /\ Len(filteredExpenses) >= 1
    /\ \E i \in 1..Len(sortedExpenses) :
          /\ DatePredicate(sortedExpenses[i], dateFilter, now)
          /\ ~Includes(selectedCategories, sortedExpenses[i].category)

\* Local midnight of the Monday of the local week (Monday to Sunday) of t.
MondayOf(t) == LocalMidnight(LocalDay(t) - ((GetDay(t) + 6) % 7))

\* C9: the week filter starts at 00:00 of the Monday of the week containing
\* now, on every weekday of now (on a Sunday: the Monday 6 days before), and
\* keeps exactly the expenses dated at or after it, later ones included.
C9_WeekFilter ==
    /\ firstDayOfWeek(now) = MondayOf(now)
    /\ GetDay(firstDayOfWeek(now)) = 1
    /\ firstDayOfWeek(now) <= now
    /\ now < firstDayOfWeek(now) + 7 * DayLen
    /\ GetDay(now) = 0 => LocalDay(firstDayOfWeek(now)) = LocalDay(now) - 6
    /\ dateFilter = "week" =>
          IsSelection(filteredExpenses, sortedExpenses,
              KeptPositions(sortedExpenses,
                  LAMBDA e : /\ e.date >= MondayOf(now)
                             /\ \/ Len(selectedCategories) = 0
                                \/ Includes(selectedCategories, e.category)))

\* C9 witness: on a Sunday the week filter keeps an expense dated after now
\* and drops an older one.
C9_Witness ==
    /\ dateFilter = "week"
    /\ selectedCategories = <<>>
    /\ GetDay(now) = 0
    /\ Len(filteredExpenses) < Len(sortedExpenses)
    /\ \E i \in 1..Len(filteredExpenses) : filteredExpenses[i].date > now

\* C10: with the today filter an expense is kept exactly when its date and
\* now fall on the same calendar day, the day being the date portion of the
\* ISO timestamp (the UTC day), whatever the time of day of either.
C10_TodayFilter ==
    dateFilter = "today" =>
        IsSelection(filteredExpenses, sortedExpenses,
            KeptPositions(sortedExpenses,
                LAMBDA e : /\ ToISODate(e.date) = ToISODate(now)
                           /\ \/ Len(selectedCategories) = 0
                              \/ Includes(selectedCategories, e.category)))

\* C10 witness: the today filter keeps an expense made at another time of
\* the day of now and drops one of another day.
C10_Witness ==
    /\ dateFilter = "today"
    /\ selectedCategories = <<>>
    /\ Len(filteredExpenses) < Len(sortedExpenses)
    /\ \E i \in 1..Len(filteredExpenses) : filteredExpenses[i].date /= now

\* The first local calendar day of the month of instant t, and of the month
\* after it.
MonthStartOf(t) == DaysFromCivil(GetFullYear(t), GetMonth(t) + 1, 1)
NextMonthStartOf(t) ==
    IF GetMonth(t) = 11
    THEN DaysFromCivil(GetFullYear(t) + 1, 1, 1)
    ELSE DaysFromCivil(GetFullYear(t), GetMonth(t) + 2, 1)

\* C11: with the month filter an expense is kept exactly when its date lies
\* in the calendar month of now, month and year both (days read in the
\* viewer's zone): from the first day of that month up to, and not
\* including, the first day of the next.
C11_MonthFilter ==
    dateFilter = "month" =>
        IsSelection(filteredExpenses, sortedExpenses,
            KeptPositions(sortedExpenses,
                LAMBDA e : /\ MonthStartOf(now) <= LocalDay(e.date)
                           /\ LocalDay(e.date) < NextMonthStartOf(now)
                           /\ \/ Len(selectedCategories) = 0
                              \/ Includes(selectedCategories, e.category)))

\* C11 witness: the month filter keeps an expense of the month of now and
\* drops one of the same month of the year before.
C11_Witness ==
    /\ dateFilter = "month"
    /\ selectedCategories = <<>>
    /\ Len(filteredExpenses) > 0
    /\ \E i \in 1..Len(sortedExpenses) :
          /\ GetMonth(sortedExpenses[i].date) = GetMonth(now)
          /\ GetFullYear(sortedExpenses[i].date) /= GetFullYear(now)
          /\ \A j \in 1..Len(filteredExpenses) :
                filteredExpenses[j].id /= sortedExpenses[i].id

\* =================================================== burn-curve properties
\* The trip's range is not degenerate (the data model's startDate <= endDate).
ValidRange(tr) == tr.startDate <= tr.endDate

Min(a, b) == IF a < b THEN a ELSE b
Max(a, b) == IF a > b THEN a ELSE b

\* The claimed length of the timeline, "now" and the trip's dates read as
\* instants: empty iff now < tripStart, otherwise
\* wholeDaysBetween(tripStart, min(now, tripEnd)) + 1.
TimelineLengthByInstant(tr, t) ==
    IF t < ParseISODate(tr.startDate) THEN 0
    ELSE (Min(t, ParseISODate(tr.endDate)) - ParseISODate(tr.startDate)) \div DayLen + 1

\* The same with "now" read as the viewer's local calendar day.
TimelineLengthByLocalDay(tr, t) ==
    IF LocalDay(t) < tr.startDate THEN 0
    ELSE Min(LocalDay(t), tr.endDate) - tr.startDate + 1

\* C1: for every trip (with startDate <= endDate) and every now, the timeline
\* of both charts is empty iff now is before tripStart, and otherwise has
\* daysBetween(tripStart, min(now, tripEnd)) + 1 buckets; "now" read as an
\* instant or as the viewer's calendar day, whichever fits.
C1_TimelineLength ==
    LET adv   == Len(advancedChartData)
        trend == Len(trendChartData)
    IN  ValidRange(trip) =>
            \/ /\ adv = TimelineLengthByInstant(trip, now)
               /\ trend = TimelineLengthByInstant(trip, now)
            \/ /\ adv = TimelineLengthByLocalDay(trip, now)
               /\ trend = TimelineLengthByLocalDay(trip, now)

\* spentToday of the k-th bucket of a chart: the day's total in the map.
SpentTodayOf(map, chart, k) == GetOrZero(map, ToISODate(chart[k].fullDate))

\* The sum of spentToday over buckets 1..k.
RECURSIVE SumSpentToday(_, _, _)
SumSpentToday(map, chart, k) ==
    IF k = 0 THEN 0
    ELSE SumSpentToday(map, chart, k - 1) + SpentTodayOf(map, chart, k)

\* C2: in both charts the cumulative spend of the k-th bucket is the sum of
\* spentToday over buckets 1..k (so the last bucket holds the sum over all
\* buckets), and the bar of the composite chart shows that spentToday.
C2_CumulativeIsRunningSum ==
    LET map   == DailySpending(filteredExpenses, trip.mainCurrency)
        adv   == advancedChartData
        trend == trendChartData
    IN  /\ \A k \in 1..Len(adv) :
              /\ adv[k].spesaCumulativa = SumSpentToday(map, adv, k)
              /\ adv[k].spesaGiornaliera
                    = (IF SpentTodayOf(map, adv, k) > 0
                       THEN SpentTodayOf(map, adv, k) ELSE Null)
        /\ \A k \in 1..Len(trend) :
              trend[k].spesaReale = SumSpentToday(map, trend, k)

\* C2 witness: two buckets with different non-zero spend, then an empty one.
C2_Witness ==
    LET adv   == advancedChartData
        trend == trendChartData
    IN  /\ Len(adv) >= 3
        /\ Len(trend) >= 3
        /\ adv[1].spesaGiornaliera > 0
        /\ adv[2].spesaGiornaliera > 0
        /\ adv[1].spesaGiornaliera /= adv[2].spesaGiornaliera
        /\ adv[3].spesaGiornaliera = Null
        /\ trend[3].spesaReale = adv[1].spesaGiornaliera + adv[2].spesaGiornaliera

\* The whole days from the trip's start date to its end date, plus one,
\* clamped to at least 1.
DurationInclusive(tr) == Max(1, tr.endDate - tr.startDate + 1)

\* q = totalBudget / duration * k, or 0 when the budget is 0.
IsIdealAt(q, tr, k) ==
    /\ q.den > 0
    /\ IF tr.totalBudget = 0 THEN q.num = 0
       ELSE q.num * DurationInclusive(tr) = tr.totalBudget * k * q.den

\* C3: the k-th bucket is the k-th day from the trip's start, and its ideal
\* cumulative budget is idealDailyBurn * k with idealDailyBurn =
\* totalBudget / totalTripDuration, or 0 when totalBudget is 0.
C3_IdealIsOrdinalTimesBurn ==
    LET adv   == advancedChartData
        trend == trendChartData
    IN  /\ \A k \in 1..Len(adv) :
              /\ ToISODate(adv[k].fullDate) = trip.startDate + k - 1
              /\ IsIdealAt(adv[k].budgetCumulativoIdeale, trip, k)
        /\ \A k \in 1..Len(trend) :
              /\ ToISODate(trend[k].fullDate) = trip.startDate + k - 1
              /\ IsIdealAt(trend[k].spesaIdeale, trip, k)

\* C3 witness: a trip of three days with a budget, seen on its last day.
C3_Witness ==
    LET adv == advancedChartData
    IN  /\ trip.totalBudget > 0
        /\ DurationInclusive(trip) = 3
        /\ Len(adv) = 3
        /\ Len(trendChartData) = 3
        /\ adv[3].budgetCumulativoIdeale.num
              = trip.totalBudget * adv[3].budgetCumulativoIdeale.den

\* C4: for every trip, also one ending on or before its start date, the
\* duration dividing the budget is max(1, wholeDaysBetween + 1), at least 1,
\* in the charts and in the forecast, and the forecast's daysElapsed, which
\* divides the total spent, is at least 1.
C4_DurationAtLeastOne ==
    /\ TotalTripDuration(trip) = DurationInclusive(trip)
    /\ TotalTripDuration(trip) >= 1
    /\ IdealDailyBurn(trip).den >= 1
    /\ ForecastTotalDays(trip) = DurationInclusive(trip)
    /\ ForecastTotalDays(trip) >= 1
    /\ ForecastDaysElapsed(trip, now) >= 1

\* C4 witness: a trip with a budget and expenses that ends before it starts,
\* seen before its end date, where the forecast computes its day counts.
C4_Witness ==
    /\ trip.endDate < trip.startDate
    /\ trip.totalBudget > 0
    /\ now < ParseISODate(trip.endDate)
    /\ Len(trip.expenses) > 0
    /\ IdealDailyBurn(trip) = [num |-> trip.totalBudget, den |-> 1]

\* ==================================================== category properties
\* The sum of the rationals q[1..n].percentage as one rational.
RECURSIVE SumPercentages(_, _)
SumPercentages(data, n) ==
    IF n = 0 THEN [num |-> 0, den |-> 1]
    ELSE LET r == SumPercentages(data, n - 1)
             q == data[n].percentage
         IN  [num |-> r.num * q.den + q.num * r.den, den |-> r.den * q.den]

\* The total of the converted amounts of a list of expenses.
RECURSIVE TotalInMain(_, _)
TotalInMain(exps, main) ==
    IF exps = <<>> THEN 0
    ELSE TotalInMain(SubSeq(exps, 1, Len(exps) - 1), main)
         + Convert(exps[Len(exps)].amount, exps[Len(exps)].currency, main)

\* C5: for a non-empty category aggregation the percentages of the groups
\* sum to 100 when the total amount is positive, and every percentage is 0
\* exactly when the total amount is 0 (nothing is divided by zero).
C5_PercentagesSumTo100 ==
    LET data  == dataByCategory
        total == TotalInMain(filteredExpenses, trip.mainCurrency)
        sum   == SumPercentages(data, Len(data))
    IN  Len(data) > 0 =>
            /\ \A i \in 1..Len(data) : data[i].percentage.den > 0
            /\ total > 0 => sum.num = 100 * sum.den
            /\ (\A i \in 1..Len(data) : data[i].percentage.num = 0) <=> total = 0

\* C5 witness: two groups with different shares, one amount converted from
\* another currency.
C5_Witness ==
    LET data == dataByCategory
    IN  /\ Len(data) = 2
        /\ data[1].amount > data[2].amount
        /\ data[2].amount > 0
        /\ \E i \in 1..Len(filteredExpenses) :
              filteredExpenses[i].currency /= trip.mainCurrency

\* The position in exps of the first expense of category c.
FirstSeen(exps, c) ==
    CHOOSE i \in 1..Len(exps) :
        /\ exps[i].category = c
        /\ \A j \in 1..(i - 1) : exps[j].category /= c

\* The groups (name, amount) are in descending order of amount, groups of
\* equal amount in the order their categories first occur in exps.
SortedStable(names, amounts, exps) ==
    \A i, j \in 1..Len(names) :
        i < j => /\ amounts[i] >= amounts[j]
                 /\ amounts[i] = amounts[j]
                       => FirstSeen(exps, names[i]) < FirstSeen(exps, names[j])

\* Every expense of the list has a positive amount (the data model's rule).
AllPositive(exps) == \A i \in 1..Len(exps) : exps[i].amount > 0

\* C6: the category groups of CategoryChart and of ExpenseTreemap are sorted
\* descending by amount, and groups of equal amount keep the order in which
\* their categories are first seen in the expense list, whatever the names
\* (stated for lists of expenses with positive amounts).
C6_SortedStableOnTies ==
    LET data == dataByCategory
        tree == treemapData
    IN  AllPositive(filteredExpenses) =>
        /\ SortedStable([i \in 1..Len(data) |-> data[i].name],
                        [i \in 1..Len(data) |-> data[i].amount], filteredExpenses)
        /\ SortedStable([i \in 1..Len(tree) |-> tree[i].name],
                        [i \in 1..Len(tree) |-> tree[i].size], filteredExpenses)

\* ================================================= StatsSummary properties
\* C12: when the filtered expense list is empty the highlights largestExpense,
\* highestSpendingDay and mostFrequentCategory are null, the average is the
\* constant 0 and not a quotient by zero, and StatsSummary renders no item,
\* the average included.
C12_EmptyHighlightsAbsent ==
    Len(filteredExpenses) = 0 =>
        LET sm == summary
        IN  /\ sm.largestExpense = NullObject
            /\ sm.highestSpendingDay = NullObject
            /\ sm.mostFrequentCategory = NullObject
            /\ sm.avgTransaction.den /= 0
            /\ sm.avgTransaction.num = 0
            /\ statItems = {}

\* C12 witness: the summary of an empty list, once with no expense in the
\* trip and the today filter chosen.
C12_Witness ==
    /\ Len(filteredExpenses) = 0
    /\ Len(trip.expenses) = 0
    /\ dateFilter = "today"
    /\ statItems = {}

\* The amount of expense i of exps in the currency main.
Normalized(exps, i, main) == Convert(exps[i].amount, exps[i].currency, main)

\* C13: for a non-empty list largestExpense is an expense of the list, its
\* mainAmount is its normalized amount, no expense has a larger normalized
\* amount and every expense before it in the list has a smaller one.
C13_LargestExpense ==
    Len(filteredExpenses) > 0 =>
        LET exps == filteredExpenses
            main == trip.mainCurrency
            le   == summary.largestExpense
        IN  \E i \in 1..Len(exps) :
               /\ le.expense = exps[i]
               /\ le.mainAmount = Normalized(exps, i, main)
               /\ \A j \in 1..Len(exps) :
                     Normalized(exps, j, main) <= Normalized(exps, i, main)
               /\ \A j \in 1..(i - 1) :
                     Normalized(exps, j, main) < Normalized(exps, i, main)

\* C13 witness: two expenses entered in different currencies and amounts
\* share the maximum normalized amount, and the first of them is reported.
C13_Witness ==
    /\ Len(filteredExpenses) = 2
    /\ filteredExpenses[1].currency /= filteredExpenses[2].currency
    /\ filteredExpenses[1].amount /= filteredExpenses[2].amount
    /\ Normalized(filteredExpenses, 1, trip.mainCurrency)
          = Normalized(filteredExpenses, 2, trip.mainCurrency)
    /\ summary.largestExpense.expense = filteredExpenses[1]

\* The number of expenses of exps of category c.
CountOf(exps, c) == Cardinality({i \in 1..Len(exps) : exps[i].category = c})

\* C14: for a non-empty list mostFrequentCategory is a category of the list,
\* its count the number of expenses of that category, no category has more
\* expenses, and every other category with as many is first seen later in
\* the list.
C14_MostFrequentCategory ==
    Len(filteredExpenses) > 0 =>
        LET exps == filteredExpenses
            mfc  == summary.mostFrequentCategory
            cats == {exps[i].category : i \in 1..Len(exps)}
        IN  /\ mfc.name \in cats
            /\ mfc.count = CountOf(exps, mfc.name)
            /\ \A c \in cats : CountOf(exps, c) <= mfc.count
            /\ \A c \in cats \ {mfc.name} :
                  CountOf(exps, c) = mfc.count
                     => FirstSeen(exps, mfc.name) < FirstSeen(exps, c)

\* The total of the normalized amounts of the expenses of exps dated on the
\* calendar day d, whatever their time of day.
RECURSIVE DayTotal(_, _, _, _)
DayTotal(exps, n, d, main) ==
    IF n = 0 THEN 0
    ELSE DayTotal(exps, n - 1, d, main)
         + (IF ToISODate(exps[n].date) = d THEN Normalized(exps, n, main) ELSE 0)

\* C15: for a non-empty list highestSpendingDay is the calendar day of some
\* expense, its amount is the total of that day, and no day has a larger
\* total.
C15_HighestSpendingDay ==
    Len(filteredExpenses) > 0 =>
        LET exps == filteredExpenses
            main == trip.mainCurrency
            hsd  == summary.highestSpendingDay
        IN  /\ \E i \in 1..Len(exps) : ToISODate(exps[i].date) = hsd.date
            /\ hsd.amount = DayTotal(exps, Len(exps), hsd.date, main)
            /\ \A i \in 1..Len(exps) :
                  DayTotal(exps, Len(exps), ToISODate(exps[i].date), main) <= hsd.amount

\* C15 witness: two expenses of one calendar day at different times of day
\* make up the reported amount.
C15_Witness ==
    /\ Len(filteredExpenses) = 2
    /\ filteredExpenses[1].date /= filteredExpenses[2].date
    /\ ToISODate(filteredExpenses[1].date) = ToISODate(filteredExpenses[2].date)
    /\ summary.highestSpendingDay.amount
          = Normalized(filteredExpenses, 1, trip.mainCurrency)
            + Normalized(filteredExpenses, 2, trip.mainCurrency)


\* ====================================================== heatmap properties
\* The rank of a colour: 0 for the colour of a day without spending, 1 to 4
\* for the four bands from the lightest to the darkest.
BandOf(color) ==
    CASE color = "bg-surface-variant/50"   -> 0
      [] color = "bg-primary-container/40" -> 1
      [] color = "bg-primary-container/70" -> 2
      [] color = "bg-primary-container"    -> 3
      [] color = "bg-primary"              -> 4

\* C16: a heatmap day with spending gets the band numbered one more than the
\* number of thresholds 0.25, 0.5, 0.75 its intensity sqrt(amount / maxSpend)
\* reaches (thresholds 1/16, 1/4, 9/16 of amount / maxSpend); a day without
\* spending, which is every day when maxSpend is 0, gets the no-spend colour
\* of intensity 0; and of two days the one that spent less never has the
\* higher band.
C16_HeatmapBands ==
    LET grid     == calendarGrid
        colors   == dayColors
        maxSpend == heatmap.maxSpend
        days     == DOMAIN colors
    IN  /\ \A i \in days :
              /\ grid[i].amount > 0 =>
                    /\ maxSpend > 0
                    /\ BandOf(colors[i]) = 1 + Cardinality({k \in 1..3 :
                           16 * grid[i].amount >= k * k * maxSpend})
              /\ grid[i].amount = 0 => BandOf(colors[i]) = 0
              /\ maxSpend = 0 => BandOf(colors[i]) = 0
        /\ \A i, j \in days :
              grid[i].amount <= grid[j].amount
                 => BandOf(colors[i]) <= BandOf(colors[j])

\* C16 witness: a grid with a day without spending, a day in the lightest
\* band and the day of the largest total in the darkest.
C16_Witness ==
    LET colors == dayColors
    IN  /\ \E i \in DOMAIN colors : BandOf(colors[i]) = 0
        /\ \E i \in DOMAIN colors : BandOf(colors[i]) = 1
        /\ \E i \in DOMAIN colors :
              /\ BandOf(colors[i]) = 4
              /\ calendarGrid[i].amount = heatmap.maxSpend

\* ================================================ AI-component properties
\* The components, their state, their payload and their handler's result on
\* the present state.
AIComponents == {"AIInsights", "AIForecast"}
StateOf(c) == IF c = "AIInsights" THEN aiInsights ELSE aiForecast
PayloadOf(c) == IF c = "AIInsights" THEN dataSummary ELSE analysisData
GenerateOf(c) ==
    IF c = "AIInsights" THEN GenerateInsights(aiInsights, dataSummary)
    ELSE GenerateForecast(aiForecast, analysisData)

\* The calls of component c in flight, awaited or not.
InFlight(c) == calls[c].awaited + calls[c].dropped

C18_SingleOutstanding ==
    \A c \in AIComponents : InFlight(c) <= 1

\* C18 amended: each mounted AI component awaits at most one call, and awaits
\* one exactly while its loading flag is set; a step starts a call only from
\* a state where the component's button is shown and enabled and no call is
\* awaited (so never while loading, and never as a call settles).  The calls
\* a component awaited when it left the tree stay in flight beside these.
C18_SingleOutstandingPerInstance ==
    /\ [](\A c \in AIComponents :
             /\ calls[c].awaited <= 1
             /\ StateOf(c).isLoading <=> calls[c].awaited = 1)
    /\ [][\A c \in AIComponents :
              InFlight(c)' > InFlight(c) =>
                 /\ ~StateOf(c).isLoading
                 /\ calls[c].awaited = 0
                 /\ IF c = "AIInsights" THEN CanGenerateInsights ELSE CanGenerateForecast
                 /\ InFlight(c)' = InFlight(c) + 1]_vars

\* C18 witness: AIForecast awaits a call, its flag set, while a call of the
\* instance that left the tree is still in flight.
C18_Witness ==
    /\ aiForecast.isLoading
    /\ calls["AIForecast"].awaited = 1
    /\ calls["AIForecast"].dropped = 1

\* The responses that are failures.
Failures == Responses \ {"ok"}

\* C19: when a call a component awaits fails (rejected, unparsable, or
\* without forecast or insights) the component is left with an error
\* message, the loading flag cleared and no result; its button, wherever the
\* component has a payload to show it for, is enabled, and a click starts a
\* new call.  (The step changes the component and its calls alone, so the
\* payload after it is the payload before it.)
C19_FailureSurfacesAsError ==
    [][\A r \in Failures :
          /\ InsightsResponse(r) =>
                /\ aiInsights'.error /= NullString
                /\ ~aiInsights'.isLoading
                /\ aiInsights'.insights = <<>>
                /\ (AnalyticsMounted /\ dataSummary /= NullObject) =>
                      /\ InsightsButton(aiInsights')
                      /\ GenerateInsights(aiInsights', dataSummary).request
          /\ ForecastResponse(r) =>
                /\ aiForecast'.error /= NullString
                /\ ~aiForecast'.isLoading
                /\ aiForecast'.result = NullObject
                /\ (AnalyticsMounted /\ analysisData /= NullObject) =>
                      /\ ForecastButton(aiForecast')
                      /\ GenerateForecast(aiForecast', analysisData).request]_vars

\* C19 witness: both components hold an error after a failed call, neither
\* is loading, and both buttons can be clicked again.
C19_Witness ==
    /\ aiInsights.error /= NullString
    /\ aiForecast.error /= NullString
    /\ CanGenerateInsights
    /\ CanGenerateForecast
    /\ \A c \in AIComponents : InFlight(c) = 0

\* C20: no AI component has its loading flag set while it holds an error
\* message.
C20_ErrorDistinctFromLoading ==
    \A c \in AIComponents : ~(StateOf(c).isLoading /\ StateOf(c).error /= NullString)

\* C20 witness: one component is loading while the other holds the error of
\* a failed call.
C20_Witness ==
    /\ aiInsights.isLoading
    /\ aiInsights.error = NullString
    /\ ~aiForecast.isLoading
    /\ aiForecast.error /= NullString

\* ============================================== empty-list and country properties
\* The highlights of the summary.
Highlights == {"largestExpense", "highestSpendingDay", "mostFrequentCategory"}

\* C21: when the filtered expense list is empty every aggregation is empty
\* or absent: the category slices, the treemap data, the country slices, the
\* per-day totals and the series of both burn-curve charts are empty
\* sequences, and the highlights are null.
C21_EmptyAggregations ==
    Len(filteredExpenses) = 0 =>
        /\ dataByCategory = <<>>
        /\ treemapData = <<>>
        /\ countryChartData = <<>>
        /\ dailyChartData = <<>>
        /\ \A h \in Highlights : summary[h] = NullObject
        /\ advancedChartData = <<>>
        /\ trendChartData = <<>>

\* The same without the burn curve.
C21_EmptyAggregationsButBurnCurve ==
    Len(filteredExpenses) = 0 =>
        /\ dataByCategory = <<>>
        /\ treemapData = <<>>
        /\ countryChartData = <<>>
        /\ dailyChartData = <<>>
        /\ \A h \in Highlights : summary[h] = NullObject

\* An empty filtered list of a started trip, whose burn curve has buckets.
C21_BurnCurveOfEmptyList ==
    /\ Len(filteredExpenses) = 0
    /\ Len(advancedChartData) > 0
    /\ \A k \in 1..Len(advancedChartData) : advancedChartData[k].spesaCumulativa = 0

\* The declared countries of a trip, as a set.
Declared(tr) == {tr.countries[i] : i \in 1..Len(tr.countries)}

\* The sum of the normalized amounts of the expenses of exps that the
\* predicate counted admits.
RECURSIVE TotalWhere(_, _, _)
TotalWhere(exps, main, counted) ==
    IF exps = <<>> THEN 0
    ELSE TotalWhere(SubSeq(exps, 1, Len(exps) - 1), main, counted)
         + (IF exps[Len(exps)] \in counted
            THEN Convert(exps[Len(exps)].amount, exps[Len(exps)].currency, main)
            ELSE 0)

\* The expenses of exps whose resolved country is c.
InCountry(exps, c) == {exps[i] : i \in {j \in 1..Len(exps) : CountryOf(exps[j]) = c}}

\* The expenses of exps, as a set.
AllOf(exps) == {exps[i] : i \in 1..Len(exps)}

\* The country slices hold, for each declared country, the total of the
\* expenses resolved to it (no slice when that total is 0), and no other
\* slice; the category, per-day and highlight aggregations count every
\* expense, the excluded ones too.
CountryTotalsOf(exps, tr) ==
    LET chart == CountryChartData(exps, tr)
        main  == tr.mainCurrency
        all   == TotalWhere(exps, main, AllOf(exps))
        cats  == DataByCategory(exps, main)
        days  == DailyChartData(exps, main)
    IN  /\ \A c \in Declared(tr) :
              LET total == TotalWhere(exps, main, InCountry(exps, c))
                  at    == {i \in 1..Len(chart) : chart[i].country = c}
              IN  IF total > 0
                  THEN /\ Cardinality(at) = 1
                       /\ \A i \in at : chart[i].amount = total
                  ELSE at = {}
        /\ \A i \in 1..Len(chart) : chart[i].country \in Declared(tr)
        /\ SumSeq([i \in 1..Len(cats) |-> cats[i].amount]) = all
        /\ SumSeq([i \in 1..Len(days) |-> days[i].amount]) = all
        /\ Len(exps) > 0 =>
              /\ Summary(exps, main).avgTransaction = [num |-> all, den |-> Len(exps)]
              /\ \A i \in 1..Len(exps) :
                    Convert(exps[i].amount, exps[i].currency, main)
                       <= Summary(exps, main).largestExpense.mainAmount

\* C22: an expense's country is its country field, else the lookup by its
\* currency; each expense whose country is resolved and declared by the trip
\* adds its normalized amount to exactly that country's total, and any other
\* expense is left out of the country totals alone: the category, per-day
\* and highlight aggregations count it.
C22_CountryTotals == CountryTotalsOf(filteredExpenses, trip)

\* C22 as amended: the same for a trip that declares two countries or more;
\* for a trip that declares at most one the country slices are empty.
C22_CountryTotalsOfMultiCountryTrip ==
    IF Len(trip.countries) >= 2
    THEN CountryTotalsOf(filteredExpenses, trip)
    ELSE countryChartData = <<>>

\* C22 witness: a trip of two countries with an expense counted by the
\* lookup of its currency and one left out, its country not being declared.
C22_Witness ==
    LET exps == filteredExpenses
    IN  /\ Len(trip.countries) >= 2
        /\ \E i, j \in 1..Len(exps) :
              /\ exps[i].country = NullString
              /\ CountryOf(exps[i]) \in Declared(trip)
              /\ exps[j].country /= NullString
              /\ CountryOf(exps[j]) \notin Declared(trip)
        /\ Len(countryChartData) = 1

\* C22 witness of the unresolved case: a trip of two countries whose only
\* filtered expense has no country and a currency the lookup does not know.
C22_WitnessUnresolved ==
    LET exps == filteredExpenses
    IN  /\ Len(trip.countries) >= 2
        /\ Len(exps) = 1
        /\ CountryOf(exps[1]) = NullString
        /\ countryChartData = <<>>
        /\ Len(dataByCategory) = 1

\* ================================================== read-only properties
\* C23: the analytics core only reads the trip: a render, with its sorts and
\* filters (sortedExpenses, filteredExpenses, the day and the category
\* drill-down, the highlights), leaves the trip's expense array as it was,
\* in contents and in order, the sorts working on copies; its sorted and
\* filtered arrays are other arrays; and the one way the trip's expenses
\* ever change is the data context's append of a new expense after those
\* held, which stay as they are.
C23_AnalyticsReadOnly ==
    /\ [](\A c \in Categories \cup {NullString} :
            LET heap == RenderArrays(trip.expenses, dateFilter, selectedCategories, now,
                                     selectedDayForDetail, c, trip.mainCurrency)
            IN  /\ heap["activeTrip.expenses"] = trip.expenses
                /\ heap["sortedExpenses"] = sortedExpenses
                /\ heap[FilteredExpensesRef(dateFilter, selectedCategories)] = filteredExpenses
                /\ AnalyticsMounted =>
                      heap["detailedExpenses"] =
                         IF c = NullString THEN <<>>
                         ELSE SelectSeq(filteredExpenses, LAMBDA e : e.category = c))
    /\ [][\/ trip' = trip
          \/ /\ Len(trip'.expenses) = Len(trip.expenses) + 1
             /\ SubSeq(trip'.expenses, 1, Len(trip.expenses)) = trip.expenses
             /\ [trip' EXCEPT !.expenses = <<>>] = [trip EXCEPT !.expenses = <<>>]]_vars

\* C23 witness: the trip's expenses are not in the order of their dates, a
\* category filter is on, and a render with a slice selected has sorted its
\* copy, filtered it and sorted the highlights' copy.
C23_Witness ==
    LET heap == RenderArrays(trip.expenses, dateFilter, selectedCategories, now,
                             selectedDayForDetail, "food", trip.mainCurrency)
    IN  /\ heap["sortedExpenses"] /= trip.expenses
        /\ Len(selectedCategories) > 0
        /\ Len(heap["filteredExpenses"]) > 0
        /\ Len(heap["filteredExpenses"]) < Len(heap["sortedExpenses"])
        /\ Len(heap["detailedExpenses"]) > 0
        /\ "largestExpense" \in DOMAIN heap

\* ==================================================== payload properties
\* The earliest and the latest timestamp of a non-empty list.
EarliestDate(exps) ==
    CHOOSE d \in {exps[i].date : i \in 1..Len(exps)} : \A i \in 1..Len(exps) : d <= exps[i].date

LatestDate(exps) ==
    CHOOSE d \in {exps[i].date : i \in 1..Len(exps)} : \A i \in 1..Len(exps) : d >= exps[i].date

\* C24: for a filtered list of at least 3 expenses, durationDays of the
\* insight payload is the number of calendar days from the day of the
\* earliest expense of that list to the day of its latest, both counted
\* (whatever the trip's range), and so at least 1.
C24_DurationDays ==
    LET exps == filteredExpenses
        summ == dataSummary
    IN  Len(exps) >= MinSample =>
            /\ summ /= NullObject
            /\ summ.durationDays
                  = ToISODate(LatestDate(exps)) - ToISODate(EarliestDate(exps)) + 1
            /\ summ.durationDays >= 1

\* What the code computes instead: the time from the earliest expense of the
\* filtered list to its latest, in days rounded to the nearest, plus 1.
C24_DurationDaysRounded ==
    LET exps == filteredExpenses
        summ == dataSummary
    IN  Len(exps) >= MinSample =>
            /\ summ /= NullObject
            /\ summ.durationDays
                  = RoundDiv(LatestDate(exps) - EarliestDate(exps), DayLen) + 1
            /\ summ.durationDays >= 1

C28_WitnessBeforeStart ==
    LET payload == analysisData
    IN  /\ payload /= NullObject
        /\ now < ParseISODate(trip.startDate) - DayLen
        /\ payload.daysElapsed = 1

\* ===================================== burn-curve properties (continued)
\* The quotients p and q are equal.
SameQuotient(p, q) == p.num * q.den = q.num * p.den

\* C25: for the same expenses, trip and now the two burn-curve charts have
\* series of the same length whose buckets agree one by one on the day, the
\* cumulative spend and the ideal cumulative budget; and the bar of the
\* composite chart is null exactly on the buckets whose spentToday is 0, on
\* which the cumulative spend is that of the bucket before (0 on the first).
C25_ChartsAgree ==
    LET map   == DailySpending(filteredExpenses, trip.mainCurrency)
        adv   == advancedChartData
        trend == trendChartData
    IN  /\ Len(adv) = Len(trend)
        /\ \A k \in 1..Len(adv) :
              /\ k <= Len(trend)
              /\ adv[k].fullDate = trend[k].fullDate
              /\ adv[k].spesaCumulativa = trend[k].spesaReale
              /\ SameQuotient(adv[k].budgetCumulativoIdeale, trend[k].spesaIdeale)
              /\ adv[k].spesaGiornaliera = Null <=> SpentTodayOf(map, adv, k) = 0
              /\ adv[k].spesaGiornaliera = Null =>
                    adv[k].spesaCumulativa
                       = (IF k = 1 THEN 0 ELSE adv[k - 1].spesaCumulativa)

\* C25 witness: charts of three buckets of a trip with a budget, the first
\* with a bar, the last without one and with spend accumulated before it.
C25_Witness ==
    LET adv   == advancedChartData
        trend == trendChartData
    IN  /\ Len(adv) = 3
        /\ Len(trend) = 3
        /\ trip.totalBudget > 0
        /\ adv[1].spesaGiornaliera /= Null
        /\ adv[3].spesaGiornaliera = Null
        /\ trend[3].spesaReale > 0

\* The ISO dates of the buckets of a chart.
BucketDays(chart) == {ToISODate(chart[k].fullDate) : k \in 1..Len(chart)}

\* The cumulative spend of the last bucket of a chart, 0 when it has none.
LastCumulative(chart, field) == IF Len(chart) = 0 THEN 0 ELSE chart[Len(chart)][field]

\* The expenses of exps dated on one of the given days.
OnDays(exps, days) == {exps[i] : i \in {j \in 1..Len(exps) : ToISODate(exps[j].date) \in days}}

\* The cumulative spend of the last bucket of a chart is the total of the
\* expenses dated on its bucket days, no two buckets are of the same day,
\* and an expense is dated on a bucket day exactly when its day is in the
\* range from the trip's start to the earlier of today and the trip's end.
LastBucketCounts(chart, field, exps, tr, today) ==
    LET days == BucketDays(chart)
    IN  /\ LastCumulative(chart, field)
              = TotalWhere(exps, tr.mainCurrency, OnDays(exps, days))
        /\ Cardinality(days) = Len(chart)
        /\ \A i \in 1..Len(exps) :
              ToISODate(exps[i].date) \in days
                 <=> /\ tr.startDate <= ToISODate(exps[i].date)
                     /\ ToISODate(exps[i].date) <= Min(today, tr.endDate)

\* C26: in both charts the cumulative spend of the last bucket is the total
\* normalized amount of exactly the filtered expenses dated on a bucket day;
\* the expenses dated before the trip's start or after the earlier of today
\* and the trip's end add nothing, and each expense in that range is counted
\* once, no two buckets being of the same day ("today" read as the day of
\* now in UTC or in the viewer's zone, whichever fits).
C26_LastBucketIsInRangeTotal ==
    LET adv   == advancedChartData
        trend == trendChartData
        exps  == filteredExpenses
    IN  ValidRange(trip) =>
            \E today \in {ToISODate(now), LocalDay(now)} :
                /\ LastBucketCounts(adv, "spesaCumulativa", exps, trip, today)
                /\ LastBucketCounts(trend, "spesaReale", exps, trip, today)

\* The same for the viewers in UTC and east of it.
C26_LastBucketIsInRangeTotalFromUTCEastward ==
    tz >= 0 => C26_LastBucketIsInRangeTotal

\* ===================================== AI-component properties (continued)
\* The state s of component c holds a result: insights, or a forecast.
HasResult(c, s) ==
    IF c = "AIInsights" THEN s.insights /= <<>> ELSE s.result /= NullObject

\* The states of the components after a step.
NextStateOf(c) == IF c = "AIInsights" THEN aiInsights' ELSE aiForecast'

\* C27: in neither AI component a stored result (a forecast, insights that
\* are not empty) and an error are ever held together; a step that starts a
\* request leaves the component with neither, and a step that settles the
\* request the component awaits leaves it with exactly one of the two: a
\* success with the result and the (absent) error untouched, a failure with
\* the error and the (absent) result untouched.
C27_ResultAndErrorExclusive ==
    /\ [](\A c \in AIComponents :
            ~(HasResult(c, StateOf(c)) /\ StateOf(c).error /= NullString))
    /\ [][\A c \in AIComponents :
            /\ calls'[c].awaited = calls[c].awaited + 1 =>
                  /\ ~HasResult(c, NextStateOf(c))
                  /\ NextStateOf(c).error = NullString
                  /\ NextStateOf(c).isLoading
            /\ (calls'[c].awaited = calls[c].awaited - 1 /\ calls'[c].dropped = calls[c].dropped) =>
                  /\ ~HasResult(c, StateOf(c))
                  /\ StateOf(c).error = NullString
                  /\ HasResult(c, NextStateOf(c)) <=> NextStateOf(c).error = NullString]_vars

\* C27 witness: one component holds the result of a request that succeeded,
\* the other the error of a request that failed, and no call is awaited.
C27_Witness ==
    /\ HasResult("AIForecast", aiForecast)
    /\ aiForecast.error = NullString
    /\ ~HasResult("AIInsights", aiInsights)
    /\ aiInsights.error /= NullString
    /\ \A c \in AIComponents : calls[c].awaited = 0
    /\ calls["AIForecast"].dropped = 0

\* ========================================== heatmap properties (continued)
\* C29: maxSpend of the heatmap is the largest of the per-day totals of the
\* filtered expenses (0 when there is none); so the amount of every day,
\* in dailyData and in the grid, is at most maxSpend, maxSpend is positive
\* wherever a day has spending (getColor divides by no zero), and each day
\* whose total is the largest gets the highest band.
C29_MaxSpendIsLargestDayTotal ==
    LET exps     == filteredExpenses
        main     == trip.mainCurrency
        data     == heatmap.dailyData
        maxSpend == heatmap.maxSpend
        grid     == calendarGrid
        colors   == dayColors
        days     == {ToISODate(exps[i].date) : i \in 1..Len(exps)}
    IN  /\ DOMAIN data = days
        /\ \A d \in days : data[d] = TotalWhere(exps, main, OnDays(exps, {d}))
        /\ IF days = {} THEN maxSpend = 0
           ELSE /\ \E d \in days : data[d] = maxSpend
                /\ \A d \in days : data[d] <= maxSpend
        /\ \A d \in days :
              /\ data[d] > 0 => maxSpend > 0
              /\ data[d] = maxSpend => BandOf(getColor(data[d], maxSpend)) = 4
        /\ \A i \in DOMAIN colors :
              /\ grid[i].amount <= maxSpend
              /\ grid[i].amount > 0 => maxSpend > 0
              /\ (grid[i].amount > 0 /\ grid[i].amount = maxSpend) => BandOf(colors[i]) = 4

\* C29 witness: a day of two expenses, whose total is maxSpend and more
\* than either amount, shown by a cell of the grid in the highest band.
C29_Witness ==
    LET exps == filteredExpenses
    IN  /\ Len(exps) = 2
        /\ ToISODate(exps[1].date) = ToISODate(exps[2].date)
        /\ exps[1].amount /= exps[2].amount
        /\ \E i \in DOMAIN dayColors :
              /\ calendarGrid[i].amount = heatmap.maxSpend
              /\ BandOf(dayColors[i]) = 4
        /\ \E i \in DOMAIN dayColors : BandOf(dayColors[i]) = 0

\* ================================================== drill-down properties
\* C30: the day selection is a toggle.  On every bucket of the composite
\* chart handleBarClick hands over none for the selected day and the
\* bucket's day for any other; a step that changes the selection sets it to
\* none or to the day of a bucket, another than before, and changes neither
\* the trip nor the filters, so the filtered list, both burn curves, the
\* highlights and the category slices stay as they are; and the drill-down
\* list is empty with no day selected and otherwise exactly the filtered
\* expenses of the selected day, in the filtered list's order.
C30_DaySelectionToggles ==
    /\ [](LET adv  == advancedChartData
              exps == filteredExpenses
              list == expensesForSelectedDay
          IN  /\ \A k \in 1..Len(adv) :
                    HandleBarClick(adv[k], selectedDayForDetail)
                       = (IF ToISODate(adv[k].fullDate) = selectedDayForDetail
                          THEN Null ELSE trip.startDate + k - 1)
              /\ IsSelection(list, exps,
                     {i \in 1..Len(exps) :
                         /\ selectedDayForDetail /= Null
                         /\ ToISODate(exps[i].date) = selectedDayForDetail}))
    /\ [][selectedDayForDetail' /= selectedDayForDetail =>
            LET exps == FilterExpenses(SortByDateDesc(trip'.expenses), dateFilter',
                                       selectedCategories', now')
            IN  /\ \/ selectedDayForDetail' = Null
                   \/ selectedDayForDetail' \in BucketDays(advancedChartData)
                /\ <<trip, dateFilter, selectedCategories, now>>'
                      = <<trip, dateFilter, selectedCategories, now>>
                /\ exps = filteredExpenses
                /\ AdvancedChartData(exps, trip', now') = advancedChartData
                /\ TrendChartData(exps, trip', now') = trendChartData
                /\ Summary(exps, trip'.mainCurrency) = summary
                /\ DataByCategory(exps, trip'.mainCurrency) = dataByCategory]_vars

\* C30 witness: a day is selected while a category filter is on, and the
\* drill-down list holds the one filtered expense of that day, of two.
C30_Witness ==
    /\ selectedDayForDetail /= Null
    /\ Len(selectedCategories) > 0
    /\ Len(filteredExpenses) = 2
    /\ Len(expensesForSelectedDay) = 1

====
